---- MODULE Spec2Model ----
(***************************************************************************)
(* State-machine model of the concurrency core of lensisku-go:             *)
(*   - package background: StartEmbeddingCalculatorService and             *)
(*     fetchAndSendDefinitions (src/unnamed/part_004);                     *)
(*   - package jbovlaste: Broadcaster (src/unnamed/part_006).              *)
(* Every goroutine is a process with a program counter; channels are       *)
(* sequences with a closed flag; a Go runtime panic (send on a closed      *)
(* channel, close of a closed channel) ends the whole program.             *)
(***************************************************************************)
EXTENDS Integers, Sequences, FiniteSets, Bags, TLC

\* ------------------------------------------------------------------------
\* Program constants of package background
\* ------------------------------------------------------------------------
numProcessorWorkers == 3

DefsChanCap == 10

ResultsChanCap == 10

\* embeddingTickerDuration, in seconds
embeddingTickerSeconds == 15

\* time.Now().Second() ranges over 0..59
SecondsPerMinute == 60

\* ------------------------------------------------------------------------
\* Program constants of package jbovlaste
\* ------------------------------------------------------------------------
SseChanCap == 32

CancelChanCap == 1

\* ------------------------------------------------------------------------
\* Bounds of the model
\* ------------------------------------------------------------------------
\* calls of the Broadcaster in progress at the same time
MaxCallers == 2

\* sessions NewClient creates in one run
MaxClients == 1

\* Broadcast calls in one run with distinguishable events
MaxBroadcasts == 1

\* ticks the ticker delivers in one run
MaxTicks == 3

\* ticks delivered in the runs checked for liveness
MaxTicksLive == 2

\* ticks delivered to a service that is left running (one minute and more)
MaxTicksRunning == 5

\* ticks delivered while the workers' results are not yet sent
MaxTicksFull == 7

\* events of one session sent or being sent and not yet read
MaxBuffered == 2

\* ticks delivered while the sink is slow
MaxTicksCap == 12

Workers == 0 .. (numProcessorWorkers - 1)

\* second of the minute at which the first tick is handled
StartSeconds == {0}

\* the IDs uuid.New() can hand out in one run (SpecN registers one session
\* more than the other specifications)
ClientIds == 1 .. (MaxClients + 1)

\* a clientID no NewClient ever returned
NoSuchClient == 0

\* event payloads (SSEEvent.Data)
Events == {"e1", "e2"}

VARIABLES
  callerPc,           \* main: "start", "spawned", "returned", "signalled"
  stopChan,           \* "open" or "closed": the stop signal
  orchPc,             \* orchestrator goroutine
  spawnI,             \* loop variable i of the worker-spawning loop
  workerPc,           \* per worker: "unspawned", "range", "send", "done"
  workerDef,          \* per worker: the def it holds (0: none)
  updaterPc,          \* "unspawned", "range", "done"
  closerPc,           \* "unspawned", "wait", "close", "done"
  defsToProcessChan,  \* buffered items
  defsClosed,
  resultsChan,        \* buffered results
  resultsClosed,
  processorsWg,
  mainWg,
  clock,              \* time.Now().Second() at the next tick
  ticks,              \* ticks handled so far
  dummyDefinitions,   \* the fetcher's batch
  fetchIdx,           \* the fetcher's position in its batch
  enqueued,           \* history: IDs sent into defsToProcessChan, in order
  sunk,               \* history: DefinitionIDs the updater received, in order
  panicked,           \* a runtime panic has ended the program
  \* --- package jbovlaste: Broadcaster ---
  clients,            \* keys of b.clients (each key names its own ClientInfo)
  nextId,             \* the next ID uuid.New() hands out
  sseChannel,         \* per ClientInfo: buffered events
  sseClosed,
  cancelChannel,      \* per ClientInfo: buffered cancel signals
  cancelClosed,
  isCancelled,
  clientMu,           \* per ClientInfo: whether its mu is held
  bmuWriter,          \* whether b.mu is held for writing
  bmuReaders,         \* how many callers hold b.mu for reading
  calls,              \* the calls in progress (a bag: callers are anonymous)
  lastRet,            \* what the call that ended last returned
  removed,            \* history: IDs whose RemoveClient has deleted the entry
  cancelOk,           \* history: per ID, CancelImport calls that returned nil
  nBroadcast,         \* history: Broadcast calls counted against MaxBroadcasts
  crashed             \* an unrecovered panic has ended the program

pvars == << callerPc, stopChan, orchPc, spawnI, workerPc, workerDef, updaterPc,
            closerPc, defsToProcessChan, defsClosed, resultsChan, resultsClosed,
            processorsWg, mainWg, clock, ticks, dummyDefinitions, fetchIdx,
            enqueued, sunk, panicked >>

bvars == << clients, nextId, sseChannel, sseClosed, cancelChannel, cancelClosed,
            isCancelled, clientMu, bmuWriter, bmuReaders, calls, lastRet,
            removed, cancelOk, nBroadcast, crashed >>

vars == << pvars, bvars >>

\* ------------------------------------------------------------------------
\* Pipeline: construction
\* ------------------------------------------------------------------------
InitPipeline ==
  /\ callerPc = "start"
  /\ stopChan = "open"
  /\ orchPc = "unspawned"
  /\ spawnI = 0
  /\ workerPc = [w \in Workers |-> "unspawned"]
  /\ workerDef = [w \in Workers |-> 0]
  /\ updaterPc = "unspawned"
  /\ closerPc = "unspawned"
  /\ defsToProcessChan = << >>
  /\ defsClosed = FALSE
  /\ resultsChan = << >>
  /\ resultsClosed = FALSE
  /\ processorsWg = 0
  /\ mainWg = 0
  /\ clock \in StartSeconds
  /\ ticks = 0
  /\ dummyDefinitions = << >>
  /\ fetchIdx = 0
  /\ enqueued = << >>
  /\ sunk = << >>
  /\ panicked = FALSE

\* ------------------------------------------------------------------------
\* main and StartEmbeddingCalculatorService
\* ------------------------------------------------------------------------
\* `go func() { ... }()`: the orchestrator goroutine is spawned
GoOrchestrator ==
  /\ ~panicked
  /\ callerPc = "start"
  /\ callerPc' = "spawned"
  /\ orchPc' = "spawnWorkers"
  /\ UNCHANGED << stopChan, spawnI, workerPc, workerDef, updaterPc, closerPc,
                  defsToProcessChan, defsClosed, resultsChan, resultsClosed,
                  processorsWg, mainWg, clock, ticks, dummyDefinitions,
                  fetchIdx, enqueued, sunk, panicked >>
  /\ UNCHANGED bvars

\* variant: a Start that returns only once the orchestrator has stopped
StartReturn_Blocking ==
  /\ ~panicked
  /\ callerPc = "spawned"
  /\ orchPc = "stopped"
  /\ callerPc' = "returned"
  /\ UNCHANGED << stopChan, orchPc, spawnI, workerPc, workerDef, updaterPc,
                  closerPc, defsToProcessChan, defsClosed, resultsChan,
                  resultsClosed, processorsWg, mainWg, clock, ticks,
                  dummyDefinitions, fetchIdx, enqueued, sunk, panicked >>
  /\ UNCHANGED bvars

\* StartEmbeddingCalculatorService returns to main
StartReturn ==
  /\ ~panicked
  /\ callerPc = "spawned"
  /\ callerPc' = "returned"
  /\ UNCHANGED << stopChan, orchPc, spawnI, workerPc, workerDef, updaterPc,
                  closerPc, defsToProcessChan, defsClosed, resultsChan,
                  resultsClosed, processorsWg, mainWg, clock, ticks,
                  dummyDefinitions, fetchIdx, enqueued, sunk, panicked >>
  /\ UNCHANGED bvars

\* main: close(embeddingStopChan)
CloseStopChan ==
  /\ ~panicked
  /\ callerPc = "returned"
  /\ callerPc' = "signalled"
  /\ stopChan' = "closed"
  /\ UNCHANGED << orchPc, spawnI, workerPc, workerDef, updaterPc, closerPc,
                  defsToProcessChan, defsClosed, resultsChan, resultsClosed,
                  processorsWg, mainWg, clock, ticks, dummyDefinitions,
                  fetchIdx, enqueued, sunk, panicked >>
  /\ UNCHANGED bvars

\* main: srv.Shutdown(ctx) returns and main returns without waiting for the
\* service; the Go runtime ends the process and with it every goroutine
MainReturn ==
  /\ ~panicked
  /\ callerPc = "signalled"
  /\ callerPc' = "exited"
  /\ UNCHANGED << stopChan, orchPc, spawnI, workerPc, workerDef, updaterPc,
                  closerPc, defsToProcessChan, defsClosed, resultsChan,
                  resultsClosed, processorsWg, mainWg, clock, ticks,
                  dummyDefinitions, fetchIdx, enqueued, sunk, panicked >>
  /\ UNCHANGED bvars

\* ------------------------------------------------------------------------
\* Orchestrator goroutine: start-up
\* ------------------------------------------------------------------------
\* one iteration of the spawning loop: processorsWg.Add(1); go worker(i)
OrchSpawnWorker ==
  /\ ~panicked
  /\ orchPc = "spawnWorkers"
  /\ spawnI < numProcessorWorkers
  /\ processorsWg' = processorsWg + 1
  /\ workerPc' = [workerPc EXCEPT ![spawnI] = "range"]
  /\ spawnI' = spawnI + 1
  /\ orchPc' = IF spawnI + 1 < numProcessorWorkers THEN "spawnWorkers"
               ELSE "spawnUpdater"
  /\ UNCHANGED << callerPc, stopChan, workerDef, updaterPc, closerPc,
                  defsToProcessChan, defsClosed, resultsChan, resultsClosed,
                  mainWg, clock, ticks, dummyDefinitions, fetchIdx, enqueued,
                  sunk, panicked >>
  /\ UNCHANGED bvars

\* mainWg.Add(1); go updater
OrchSpawnUpdater ==
  /\ ~panicked
  /\ orchPc = "spawnUpdater"
  /\ mainWg' = mainWg + 1
  /\ updaterPc' = "range"
  /\ orchPc' = "spawnCloser"
  /\ UNCHANGED << callerPc, stopChan, spawnI, workerPc, workerDef, closerPc,
                  defsToProcessChan, defsClosed, resultsChan, resultsClosed,
                  processorsWg, clock, ticks, dummyDefinitions, fetchIdx,
                  enqueued, sunk, panicked >>
  /\ UNCHANGED bvars

\* go func() { processorsWg.Wait(); close(resultsChan) }()
OrchSpawnCloser ==
  /\ ~panicked
  /\ orchPc = "spawnCloser"
  /\ closerPc' = "wait"
  /\ orchPc' = "select"
  /\ UNCHANGED << callerPc, stopChan, spawnI, workerPc, workerDef, updaterPc,
                  defsToProcessChan, defsClosed, resultsChan, resultsClosed,
                  processorsWg, mainWg, clock, ticks, dummyDefinitions,
                  fetchIdx, enqueued, sunk, panicked >>
  /\ UNCHANGED bvars

\* ------------------------------------------------------------------------
\* Orchestrator goroutine: main loop
\* ------------------------------------------------------------------------
\* the fetcher's batch: IDs built from time.Now().Second()
DummyDefinitions(sec) == << sec * 100 + 1, sec * 100 + 2 >>

\* variant: a tick that starts the fetcher also while the orchestrator waits
\* in its shutdown
OrchTick_InShutdown(maxTicks) ==
  /\ ~panicked
  /\ orchPc \in {"select", "waitMain"}
  /\ ticks < maxTicks
  /\ ticks' = ticks + 1
  /\ dummyDefinitions' = DummyDefinitions(clock)
  /\ clock' = (clock + embeddingTickerSeconds) % SecondsPerMinute
  /\ fetchIdx' = 1
  /\ orchPc' = "fetch"
  /\ UNCHANGED << callerPc, stopChan, spawnI, workerPc, workerDef, updaterPc,
                  closerPc, defsToProcessChan, defsClosed, resultsChan,
                  resultsClosed, processorsWg, mainWg, enqueued, sunk,
                  panicked >>
  /\ UNCHANGED bvars

\* case <-orchestratorTicker.C: fetchAndSendDefinitions builds its batch
OrchTick(maxTicks) ==
  /\ ~panicked
  /\ orchPc = "select"
  /\ ticks < maxTicks
  /\ ticks' = ticks + 1
  /\ dummyDefinitions' = DummyDefinitions(clock)
  /\ clock' = (clock + embeddingTickerSeconds) % SecondsPerMinute
  /\ fetchIdx' = 1
  /\ orchPc' = "fetch"
  /\ UNCHANGED << callerPc, stopChan, spawnI, workerPc, workerDef, updaterPc,
                  closerPc, defsToProcessChan, defsClosed, resultsChan,
                  resultsClosed, processorsWg, mainWg, enqueued, sunk,
                  panicked >>
  /\ UNCHANGED bvars

\* variant: a send that is accepted whatever the queue holds
DefsSendReady_Always == TRUE

\* whether the non-blocking send takes its send case
DefsSendReady == Len(defsToProcessChan) < DefsChanCap

\* fetchAndSendDefinitions: one iteration of `for _, def := range dummyDefinitions`
FetchSend ==
  /\ ~panicked
  /\ orchPc = "fetch"
  /\ LET def == dummyDefinitions[fetchIdx]
     IN  IF defsClosed
         THEN /\ panicked' = TRUE
              /\ UNCHANGED << defsToProcessChan, enqueued >>
         ELSE /\ panicked' = FALSE
              /\ IF DefsSendReady
                 THEN /\ defsToProcessChan' = Append(defsToProcessChan, def)
                      /\ enqueued' = Append(enqueued, def)
                 ELSE UNCHANGED << defsToProcessChan, enqueued >>
  /\ IF fetchIdx < Len(dummyDefinitions)
     THEN /\ fetchIdx' = fetchIdx + 1
          /\ orchPc' = "fetch"
          /\ UNCHANGED dummyDefinitions
     ELSE /\ fetchIdx' = 0
          /\ orchPc' = "select"
          /\ dummyDefinitions' = << >>
  /\ UNCHANGED << callerPc, stopChan, spawnI, workerPc, workerDef, updaterPc,
                  closerPc, defsClosed, resultsChan, resultsClosed,
                  processorsWg, mainWg, clock, ticks, sunk >>
  /\ UNCHANGED bvars

\* variant: a stop case that is taken whether or not stopChan is closed
OrchStop_Unsignalled ==
  /\ ~panicked
  /\ orchPc = "select"
  /\ IF defsClosed
     THEN panicked' = TRUE /\ UNCHANGED defsClosed
     ELSE panicked' = FALSE /\ defsClosed' = TRUE
  /\ orchPc' = "waitMain"
  /\ UNCHANGED << callerPc, stopChan, spawnI, workerPc, workerDef, updaterPc,
                  closerPc, defsToProcessChan, resultsChan, resultsClosed,
                  processorsWg, mainWg, clock, ticks, dummyDefinitions,
                  fetchIdx, enqueued, sunk >>
  /\ UNCHANGED bvars

\* variant: a stop case that closes the queue and goes round the loop again
OrchStop_Loops ==
  /\ ~panicked
  /\ orchPc = "select"
  /\ stopChan = "closed"
  /\ IF defsClosed
     THEN panicked' = TRUE /\ UNCHANGED defsClosed
     ELSE panicked' = FALSE /\ defsClosed' = TRUE
  /\ orchPc' = "select"
  /\ UNCHANGED << callerPc, stopChan, spawnI, workerPc, workerDef, updaterPc,
                  closerPc, defsToProcessChan, resultsChan, resultsClosed,
                  processorsWg, mainWg, clock, ticks, dummyDefinitions,
                  fetchIdx, enqueued, sunk >>
  /\ UNCHANGED bvars

\* case <-stopChan: close(defsToProcessChan), then on to mainWg.Wait()
OrchStop ==
  /\ ~panicked
  /\ orchPc = "select"
  /\ stopChan = "closed"
  /\ IF defsClosed
     THEN panicked' = TRUE /\ UNCHANGED defsClosed
     ELSE panicked' = FALSE /\ defsClosed' = TRUE
  /\ orchPc' = "waitMain"
  /\ UNCHANGED << callerPc, stopChan, spawnI, workerPc, workerDef, updaterPc,
                  closerPc, defsToProcessChan, resultsChan, resultsClosed,
                  processorsWg, mainWg, clock, ticks, dummyDefinitions,
                  fetchIdx, enqueued, sunk >>
  /\ UNCHANGED bvars

\* mainWg.Wait() returns; the orchestrator goroutine returns
OrchReturn ==
  /\ ~panicked
  /\ orchPc = "waitMain"
  /\ mainWg = 0
  /\ orchPc' = "stopped"
  /\ UNCHANGED << callerPc, stopChan, spawnI, workerPc, workerDef, updaterPc,
                  closerPc, defsToProcessChan, defsClosed, resultsChan,
                  resultsClosed, processorsWg, mainWg, clock, ticks,
                  dummyDefinitions, fetchIdx, enqueued, sunk, panicked >>
  /\ UNCHANGED bvars

\* ------------------------------------------------------------------------
\* Processor workers
\* ------------------------------------------------------------------------
\* variant: a worker that reads the head of the channel and leaves it there
WorkerRecv_Peek(w) ==
  /\ ~panicked
  /\ workerPc[w] = "range"
  /\ Len(defsToProcessChan) > 0
  /\ workerDef' = [workerDef EXCEPT ![w] = Head(defsToProcessChan)]
  /\ workerPc' = [workerPc EXCEPT ![w] = "send"]
  /\ UNCHANGED << callerPc, stopChan, orchPc, spawnI, updaterPc, closerPc,
                  defsToProcessChan, defsClosed, resultsChan, resultsClosed,
                  processorsWg, mainWg, clock, ticks, dummyDefinitions,
                  fetchIdx, enqueued, sunk, panicked >>
  /\ UNCHANGED bvars

\* `for def := range defsToProcessChan`: an item is received
WorkerRecv(w) ==
  /\ ~panicked
  /\ workerPc[w] = "range"
  /\ Len(defsToProcessChan) > 0
  /\ workerDef' = [workerDef EXCEPT ![w] = Head(defsToProcessChan)]
  /\ defsToProcessChan' = Tail(defsToProcessChan)
  /\ workerPc' = [workerPc EXCEPT ![w] = "send"]
  /\ UNCHANGED << callerPc, stopChan, orchPc, spawnI, updaterPc, closerPc,
                  defsClosed, resultsChan, resultsClosed, processorsWg,
                  mainWg, clock, ticks, dummyDefinitions, fetchIdx, enqueued,
                  sunk, panicked >>
  /\ UNCHANGED bvars

\* variant: a result whose DefinitionID is left at its zero value
MakeResult_NoId(def) == [DefinitionID |-> 0, Error |-> FALSE]

\* EmbeddingResult{DefinitionID: def.ID, Embedding: embedding}; Error stays nil
MakeResult(def) == [DefinitionID |-> def, Error |-> FALSE]

\* variant: a worker whose send gives up and drops the result when the
\* channel is full
WorkerSend_DropOnFull(w) ==
  /\ ~panicked
  /\ workerPc[w] = "send"
  /\ IF resultsClosed
     THEN /\ panicked' = TRUE
          /\ UNCHANGED << resultsChan, workerPc, workerDef >>
     ELSE /\ panicked' = FALSE
          /\ resultsChan' = IF Len(resultsChan) < ResultsChanCap
                            THEN Append(resultsChan, MakeResult(workerDef[w]))
                            ELSE resultsChan
          /\ workerPc' = [workerPc EXCEPT ![w] = "range"]
          /\ workerDef' = [workerDef EXCEPT ![w] = 0]
  /\ UNCHANGED << callerPc, stopChan, orchPc, spawnI, updaterPc, closerPc,
                  defsToProcessChan, defsClosed, resultsClosed, processorsWg,
                  mainWg, clock, ticks, dummyDefinitions, fetchIdx, enqueued,
                  sunk >>
  /\ UNCHANGED bvars

\* `resultsChan <- result`: blocks while the channel is full, panics when closed
WorkerSend(w) ==
  /\ ~panicked
  /\ workerPc[w] = "send"
  /\ resultsClosed \/ Len(resultsChan) < ResultsChanCap
  /\ IF resultsClosed
     THEN /\ panicked' = TRUE
          /\ UNCHANGED << resultsChan, workerPc, workerDef >>
     ELSE /\ panicked' = FALSE
          /\ resultsChan' = Append(resultsChan, MakeResult(workerDef[w]))
          /\ workerPc' = [workerPc EXCEPT ![w] = "range"]
          /\ workerDef' = [workerDef EXCEPT ![w] = 0]
  /\ UNCHANGED << callerPc, stopChan, orchPc, spawnI, updaterPc, closerPc,
                  defsToProcessChan, defsClosed, resultsClosed, processorsWg,
                  mainWg, clock, ticks, dummyDefinitions, fetchIdx, enqueued,
                  sunk >>
  /\ UNCHANGED bvars

\* variant: a worker that leaves its loop as soon as the channel is empty
WorkerLoopEnds_OnEmpty == Len(defsToProcessChan) = 0

\* variant: a worker that leaves its loop once the channel is closed, without
\* draining what is still buffered
WorkerLoopEnds_NoDrain == defsClosed

\* the range loop ends when the channel is closed and drained
WorkerLoopEnds == defsClosed /\ Len(defsToProcessChan) = 0

\* variant: a worker that returns without processorsWg.Done()
WorkerExit_NoDone(w) ==
  /\ ~panicked
  /\ workerPc[w] = "range"
  /\ WorkerLoopEnds
  /\ workerPc' = [workerPc EXCEPT ![w] = "done"]
  /\ UNCHANGED << callerPc, stopChan, orchPc, spawnI, workerDef, updaterPc,
                  closerPc, defsToProcessChan, defsClosed, resultsChan,
                  resultsClosed, processorsWg, mainWg, clock, ticks,
                  dummyDefinitions, fetchIdx, enqueued, sunk, panicked >>
  /\ UNCHANGED bvars

\* the worker returns; `defer processorsWg.Done()` runs
WorkerExit(w) ==
  /\ ~panicked
  /\ workerPc[w] = "range"
  /\ WorkerLoopEnds
  /\ workerPc' = [workerPc EXCEPT ![w] = "done"]
  /\ processorsWg' = processorsWg - 1
  /\ panicked' = (processorsWg - 1 < 0)
  /\ UNCHANGED << callerPc, stopChan, orchPc, spawnI, workerDef, updaterPc,
                  closerPc, defsToProcessChan, defsClosed, resultsChan,
                  resultsClosed, mainWg, clock, ticks, dummyDefinitions,
                  fetchIdx, enqueued, sunk >>
  /\ UNCHANGED bvars

\* ------------------------------------------------------------------------
\* Updater (sink) and the goroutine that closes resultsChan
\* ------------------------------------------------------------------------
\* `for result := range resultsChan`: a result is received and logged
\* variant: an updater that takes the newest result instead of the oldest
UpdaterRecv_Newest ==
  /\ ~panicked
  /\ updaterPc = "range"
  /\ Len(resultsChan) > 0
  /\ sunk' = Append(sunk, resultsChan[Len(resultsChan)].DefinitionID)
  /\ resultsChan' = SubSeq(resultsChan, 1, Len(resultsChan) - 1)
  /\ UNCHANGED << callerPc, stopChan, orchPc, spawnI, workerPc, workerDef,
                  updaterPc, closerPc, defsToProcessChan, defsClosed,
                  resultsClosed, processorsWg, mainWg, clock, ticks,
                  dummyDefinitions, fetchIdx, enqueued, panicked >>
  /\ UNCHANGED bvars

UpdaterRecv ==
  /\ ~panicked
  /\ updaterPc = "range"
  /\ Len(resultsChan) > 0
  /\ sunk' = Append(sunk, Head(resultsChan).DefinitionID)
  /\ resultsChan' = Tail(resultsChan)
  /\ UNCHANGED << callerPc, stopChan, orchPc, spawnI, workerPc, workerDef,
                  updaterPc, closerPc, defsToProcessChan, defsClosed,
                  resultsClosed, processorsWg, mainWg, clock, ticks,
                  dummyDefinitions, fetchIdx, enqueued, panicked >>
  /\ UNCHANGED bvars

\* variant: an updater that leaves its loop once resultsChan is closed,
\* without draining what is still buffered
UpdaterLoopEnds_NoDrain == resultsClosed

\* variant: an updater that leaves its loop as soon as resultsChan is empty
UpdaterLoopEnds_OnEmpty == Len(resultsChan) = 0

\* the updater's range loop ends when resultsChan is closed and drained
UpdaterLoopEnds == resultsClosed /\ Len(resultsChan) = 0

\* the updater returns; `defer mainWg.Done()` runs
UpdaterExit ==
  /\ ~panicked
  /\ updaterPc = "range"
  /\ UpdaterLoopEnds
  /\ updaterPc' = "done"
  /\ mainWg' = mainWg - 1
  /\ panicked' = (mainWg - 1 < 0)
  /\ UNCHANGED << callerPc, stopChan, orchPc, spawnI, workerPc, workerDef,
                  closerPc, defsToProcessChan, defsClosed, resultsChan,
                  resultsClosed, processorsWg, clock, ticks, dummyDefinitions,
                  fetchIdx, enqueued, sunk >>
  /\ UNCHANGED bvars

\* variant: a closer that does not wait for the workers
ProcessorsWaitDone_NoWait == TRUE

\* variant: a closer that waits on the updater's WaitGroup instead
ProcessorsWaitDone_WrongGroup == mainWg = 0

\* processorsWg.Wait() returns when the counter is zero
ProcessorsWaitDone == processorsWg = 0

CloserWait ==
  /\ ~panicked
  /\ closerPc = "wait"
  /\ ProcessorsWaitDone
  /\ closerPc' = "close"
  /\ UNCHANGED << callerPc, stopChan, orchPc, spawnI, workerPc, workerDef,
                  updaterPc, defsToProcessChan, defsClosed, resultsChan,
                  resultsClosed, processorsWg, mainWg, clock, ticks,
                  dummyDefinitions, fetchIdx, enqueued, sunk, panicked >>
  /\ UNCHANGED bvars

\* close(resultsChan)
CloserClose ==
  /\ ~panicked
  /\ closerPc = "close"
  /\ IF resultsClosed
     THEN panicked' = TRUE /\ UNCHANGED resultsClosed
     ELSE panicked' = FALSE /\ resultsClosed' = TRUE
  /\ closerPc' = "done"
  /\ UNCHANGED << callerPc, stopChan, orchPc, spawnI, workerPc, workerDef,
                  updaterPc, defsToProcessChan, defsClosed, resultsChan,
                  processorsWg, mainWg, clock, ticks, dummyDefinitions,
                  fetchIdx, enqueued, sunk >>
  /\ UNCHANGED bvars

\* ------------------------------------------------------------------------
\* Broadcaster: construction (NewBroadcaster) and helpers
\* ------------------------------------------------------------------------
\* A call in progress: its position, its clientID argument (which names the
\* ClientInfo the lookup returned), its event argument, and for
\* ListActiveImports the map keys yet to visit and the result so far.
Call(at, id, ev, rem, act) ==
  [at |-> at, arg |-> id, ev |-> ev, rem |-> rem, act |-> act]

\* What a call returned: the operation, its clientID argument, the error
\* (or "nil", or "panic" when the call ended in a runtime panic instead of
\* returning) and the IDs in the returned value.
Result(o, id, err, ids) == [op |-> o, arg |-> id, err |-> err, ids |-> ids]

ErrNotFound == "not found"

ErrNotFoundForCancellation == "not found for cancellation"

ErrSendFailed == "send failed"

ErrAlreadyCancelled == "already cancelled"

ErrSignalFailed == "signal send failed"

Panicked == "panic"

InitBroadcaster ==
  /\ clients = {}
  /\ nextId = 1
  /\ sseChannel = [c \in ClientIds |-> << >>]
  /\ sseClosed = [c \in ClientIds |-> FALSE]
  /\ cancelChannel = [c \in ClientIds |-> << >>]
  /\ cancelClosed = [c \in ClientIds |-> FALSE]
  /\ isCancelled = [c \in ClientIds |-> FALSE]
  /\ clientMu = [c \in ClientIds |-> FALSE]
  /\ bmuWriter = FALSE
  /\ bmuReaders = 0
  /\ calls = EmptyBag
  /\ lastRet = Result("none", NoSuchClient, "nil", {})
  /\ removed = {}
  /\ cancelOk = [c \in ClientIds |-> 0]
  /\ nBroadcast = 0
  /\ crashed = FALSE

\* the clientIDs a caller can pass: those NewClient returned, or a bogus one
KnownIds == (1 .. (nextId - 1)) \cup {NoSuchClient}

\* another goroutine can enter the Broadcaster
CanCall == BagCardinality(calls) < MaxCallers

Started(d) == calls (+) SetToBag({d})

Finished(c) == calls (-) SetToBag({c})

Moved(c, d) == (calls (-) SetToBag({c})) (+) SetToBag({d})

\* b.mu.RLock() is granted
CanRLock == ~bmuWriter

\* b.mu.Lock() is granted
CanLock == ~bmuWriter /\ bmuReaders = 0

\* clientInfo, ok := b.clients[clientID]
Found(id) == id \in clients

\* ------------------------------------------------------------------------
\* Broadcaster.NewClient
\* ------------------------------------------------------------------------
\* variant: a NewClient that never stores the ClientInfo in b.clients
NewClient_NotStored(maxClients) ==
  /\ ~crashed
  /\ CanCall
  /\ CanLock
  /\ nextId <= maxClients
  /\ nextId' = nextId + 1
  /\ lastRet' = Result("NewClient", NoSuchClient, "nil", {nextId})
  /\ UNCHANGED << clients, sseChannel, cancelChannel, isCancelled, sseClosed,
                  cancelClosed, clientMu, bmuWriter, bmuReaders, calls,
                  removed, cancelOk, nBroadcast, crashed >>
  /\ UNCHANGED pvars

NewClient(maxClients) ==
  /\ ~crashed
  /\ CanCall
  /\ CanLock
  /\ nextId <= maxClients
  /\ clients' = clients \cup {nextId}
  /\ nextId' = nextId + 1
  /\ sseChannel' = [sseChannel EXCEPT ![nextId] = << >>]
  /\ cancelChannel' = [cancelChannel EXCEPT ![nextId] = << >>]
  /\ isCancelled' = [isCancelled EXCEPT ![nextId] = FALSE]
  /\ lastRet' = Result("NewClient", NoSuchClient, "nil", {nextId})
  /\ UNCHANGED << sseClosed, cancelClosed, clientMu, bmuWriter, bmuReaders,
                  calls, removed, cancelOk, nBroadcast, crashed >>
  /\ UNCHANGED pvars

\* ------------------------------------------------------------------------
\* Broadcaster.Broadcast
\* ------------------------------------------------------------------------
\* the call, and the lookup under b.mu.RLock(); `counted` bounds the calls
BroadcastLookup(id, ev, counted) ==
  /\ ~crashed
  /\ CanCall
  /\ CanRLock
  /\ IF counted
     THEN nBroadcast < MaxBroadcasts /\ nBroadcast' = nBroadcast + 1
     ELSE UNCHANGED nBroadcast
  /\ IF Found(id)
     THEN /\ calls' = Started(Call("bCheck", id, ev, {}, {}))
          /\ UNCHANGED lastRet
     ELSE /\ lastRet' = Result("Broadcast", id, ErrNotFound, {})
          /\ UNCHANGED calls
  /\ UNCHANGED << clients, nextId, sseChannel, sseClosed, cancelChannel,
                  cancelClosed, isCancelled, clientMu, bmuWriter, bmuReaders,
                  removed, cancelOk, crashed >>
  /\ UNCHANGED pvars

\* variant: a Broadcast that goes on to its send whatever the flag says
BroadcastCheck_NoSkip(c) ==
  /\ ~crashed
  /\ c.at = "bCheck"
  /\ ~clientMu[c.arg]
  /\ calls' = Moved(c, [c EXCEPT !.at = "bSend"])
  /\ UNCHANGED << clients, nextId, sseChannel, sseClosed, cancelChannel,
                  cancelClosed, isCancelled, clientMu, bmuWriter, bmuReaders,
                  lastRet, removed, cancelOk, nBroadcast, crashed >>
  /\ UNCHANGED pvars

\* clientInfo.mu.Lock(); if clientInfo.isCancelled { return nil }; Unlock()
BroadcastCheck(c) ==
  /\ ~crashed
  /\ c.at = "bCheck"
  /\ ~clientMu[c.arg]
  /\ IF isCancelled[c.arg]
     THEN /\ calls' = Finished(c)
          /\ lastRet' = Result("Broadcast", c.arg, "nil", {})
     ELSE /\ calls' = Moved(c, [c EXCEPT !.at = "bSend"])
          /\ UNCHANGED lastRet
  /\ UNCHANGED << clients, nextId, sseChannel, sseClosed, cancelChannel,
                  cancelClosed, isCancelled, clientMu, bmuWriter, bmuReaders,
                  removed, cancelOk, nBroadcast, crashed >>
  /\ UNCHANGED pvars

\* variant: a send that is accepted by a channel already holding cap values
SelectSend_Unbounded(closed, buffered, cap) ==
  IF closed THEN "panic" ELSE "sent"

\* what `select { case ch <- v: ... default: ... }` does on a channel:
\* a send on a closed channel panics, a full channel takes the default case
SelectSend(closed, buffered, cap) ==
  IF closed THEN "panic"
  ELSE IF buffered < cap THEN "sent"
  ELSE "default"

\* variant: a send that puts the event at the head of the buffer
BroadcastSend_AtHead(c) ==
  /\ ~crashed
  /\ c.at = "bSend"
  /\ LET outcome == SelectSend(sseClosed[c.arg], Len(sseChannel[c.arg]), SseChanCap)
     IN  /\ sseChannel' = IF outcome = "sent"
                          THEN [sseChannel EXCEPT ![c.arg] = << c.ev >> \o @]
                          ELSE sseChannel
         /\ lastRet' = Result("Broadcast", c.arg,
                              IF outcome = "sent" THEN "nil"
                              ELSE IF outcome = "default" THEN ErrSendFailed
                              ELSE Panicked, {})
         /\ IF outcome = "panic" THEN crashed' \in BOOLEAN ELSE crashed' = crashed
  /\ calls' = Finished(c)
  /\ UNCHANGED << clients, nextId, sseClosed, cancelChannel, cancelClosed,
                  isCancelled, clientMu, bmuWriter, bmuReaders, removed,
                  cancelOk, nBroadcast >>
  /\ UNCHANGED pvars

\* select { case clientInfo.sseChannel <- event: return nil; default: return error }
BroadcastSend(c) ==
  /\ ~crashed
  /\ c.at = "bSend"
  /\ LET outcome == SelectSend(sseClosed[c.arg], Len(sseChannel[c.arg]), SseChanCap)
     IN  /\ sseChannel' = IF outcome = "sent"
                          THEN [sseChannel EXCEPT ![c.arg] = Append(@, c.ev)]
                          ELSE sseChannel
         /\ lastRet' = Result("Broadcast", c.arg,
                              IF outcome = "sent" THEN "nil"
                              ELSE IF outcome = "default" THEN ErrSendFailed
                              ELSE Panicked, {})
         /\ IF outcome = "panic" THEN crashed' \in BOOLEAN ELSE crashed' = crashed
  /\ calls' = Finished(c)
  /\ UNCHANGED << clients, nextId, sseClosed, cancelChannel, cancelClosed,
                  isCancelled, clientMu, bmuWriter, bmuReaders, removed,
                  cancelOk, nBroadcast >>
  /\ UNCHANGED pvars

\* The holder of the receive-only event channel (NewClient's caller, or the
\* HTTP handler GetClientSSEChannel serves) takes the event at the head of it;
\* buffered events are still delivered after a close.
SseRecv(id) ==
  /\ ~crashed
  /\ Len(sseChannel[id]) > 0
  /\ sseChannel' = [sseChannel EXCEPT ![id] = Tail(@)]
  /\ UNCHANGED << clients, nextId, sseClosed, cancelChannel, cancelClosed,
                  isCancelled, clientMu, bmuWriter, bmuReaders, calls, lastRet,
                  removed, cancelOk, nBroadcast, crashed >>
  /\ UNCHANGED pvars

\* ------------------------------------------------------------------------
\* Broadcaster.CancelImport
\* ------------------------------------------------------------------------
\* the call, and the lookup under b.mu.RLock()
CancelLookup(id) ==
  /\ ~crashed
  /\ CanCall
  /\ CanRLock
  /\ IF Found(id)
     THEN /\ calls' = Started(Call("cLock", id, "none", {}, {}))
          /\ UNCHANGED lastRet
     ELSE /\ lastRet' = Result("CancelImport", id, ErrNotFoundForCancellation, {})
          /\ UNCHANGED calls
  /\ UNCHANGED << clients, nextId, sseChannel, sseClosed, cancelChannel,
                  cancelClosed, isCancelled, clientMu, bmuWriter, bmuReaders,
                  removed, cancelOk, nBroadcast, crashed >>
  /\ UNCHANGED pvars

\* variant: CancelImport without the already-cancelled check
AlreadyCancelled_Unchecked(id) == FALSE

\* `if clientInfo.isCancelled`: the already-cancelled check
AlreadyCancelled(id) == isCancelled[id]

\* variant: a CancelImport that clears the flag of a cancelled session
CancelLock_Toggle(c) ==
  /\ ~crashed
  /\ c.at = "cLock"
  /\ ~clientMu[c.arg]
  /\ IF AlreadyCancelled(c.arg)
     THEN /\ calls' = Finished(c)
          /\ lastRet' = Result("CancelImport", c.arg, "nil", {})
          /\ isCancelled' = [isCancelled EXCEPT ![c.arg] = FALSE]
          /\ UNCHANGED clientMu
     ELSE /\ isCancelled' = [isCancelled EXCEPT ![c.arg] = TRUE]
          /\ clientMu' = [clientMu EXCEPT ![c.arg] = TRUE]
          /\ calls' = Moved(c, [c EXCEPT !.at = "cSend"])
          /\ UNCHANGED lastRet
  /\ UNCHANGED << clients, nextId, sseChannel, sseClosed, cancelChannel,
                  cancelClosed, bmuWriter, bmuReaders, removed, cancelOk,
                  nBroadcast, crashed >>
  /\ UNCHANGED pvars

\* variant: a CancelImport that passes the check and never sets the flag
CancelLock_NoFlag(c) ==
  /\ ~crashed
  /\ c.at = "cLock"
  /\ ~clientMu[c.arg]
  /\ IF AlreadyCancelled(c.arg)
     THEN /\ calls' = Finished(c)
          /\ lastRet' = Result("CancelImport", c.arg, ErrAlreadyCancelled, {})
          /\ UNCHANGED clientMu
     ELSE /\ clientMu' = [clientMu EXCEPT ![c.arg] = TRUE]
          /\ calls' = Moved(c, [c EXCEPT !.at = "cSend"])
          /\ UNCHANGED lastRet
  /\ UNCHANGED << clients, nextId, sseChannel, sseClosed, cancelChannel,
                  cancelClosed, isCancelled, bmuWriter, bmuReaders, removed,
                  cancelOk, nBroadcast, crashed >>
  /\ UNCHANGED pvars

\* clientInfo.mu.Lock(); the already-cancelled check (returning runs the
\* deferred Unlock); clientInfo.isCancelled = true
CancelLock(c) ==
  /\ ~crashed
  /\ c.at = "cLock"
  /\ ~clientMu[c.arg]
  /\ IF AlreadyCancelled(c.arg)
     THEN /\ calls' = Finished(c)
          /\ lastRet' = Result("CancelImport", c.arg, ErrAlreadyCancelled, {})
          /\ UNCHANGED << isCancelled, clientMu >>
     ELSE /\ isCancelled' = [isCancelled EXCEPT ![c.arg] = TRUE]
          /\ clientMu' = [clientMu EXCEPT ![c.arg] = TRUE]
          /\ calls' = Moved(c, [c EXCEPT !.at = "cSend"])
          /\ UNCHANGED lastRet
  /\ UNCHANGED << clients, nextId, sseChannel, sseClosed, cancelChannel,
                  cancelClosed, bmuWriter, bmuReaders, removed, cancelOk,
                  nBroadcast, crashed >>
  /\ UNCHANGED pvars

\* variant: a CancelImport that returns without releasing clientInfo.mu
CancelSend_NoUnlock(c) ==
  /\ ~crashed
  /\ c.at = "cSend"
  /\ LET outcome == SelectSend(cancelClosed[c.arg], Len(cancelChannel[c.arg]),
                               CancelChanCap)
     IN  /\ cancelChannel' = IF outcome = "sent"
                             THEN [cancelChannel EXCEPT ![c.arg] = Append(@, TRUE)]
                             ELSE cancelChannel
         /\ cancelOk' = IF outcome = "sent"
                        THEN [cancelOk EXCEPT ![c.arg] = @ + 1]
                        ELSE cancelOk
         /\ lastRet' = Result("CancelImport", c.arg,
                              IF outcome = "sent" THEN "nil"
                              ELSE IF outcome = "default" THEN ErrSignalFailed
                              ELSE Panicked, {})
         /\ IF outcome = "panic" THEN crashed' \in BOOLEAN ELSE crashed' = crashed
  /\ calls' = Finished(c)
  /\ UNCHANGED << clients, nextId, sseChannel, sseClosed, cancelClosed,
                  isCancelled, clientMu, bmuWriter, bmuReaders, removed,
                  nBroadcast >>
  /\ UNCHANGED pvars

\* select { case clientInfo.cancelChannel <- true: return nil; default: return error }
\* and the deferred clientInfo.mu.Unlock()
CancelSend(c) ==
  /\ ~crashed
  /\ c.at = "cSend"
  /\ LET outcome == SelectSend(cancelClosed[c.arg], Len(cancelChannel[c.arg]),
                               CancelChanCap)
     IN  /\ cancelChannel' = IF outcome = "sent"
                             THEN [cancelChannel EXCEPT ![c.arg] = Append(@, TRUE)]
                             ELSE cancelChannel
         /\ cancelOk' = IF outcome = "sent"
                        THEN [cancelOk EXCEPT ![c.arg] = @ + 1]
                        ELSE cancelOk
         /\ lastRet' = Result("CancelImport", c.arg,
                              IF outcome = "sent" THEN "nil"
                              ELSE IF outcome = "default" THEN ErrSignalFailed
                              ELSE Panicked, {})
         /\ IF outcome = "panic" THEN crashed' \in BOOLEAN ELSE crashed' = crashed
  /\ clientMu' = [clientMu EXCEPT ![c.arg] = FALSE]
  /\ calls' = Finished(c)
  /\ UNCHANGED << clients, nextId, sseChannel, sseClosed, cancelClosed,
                  isCancelled, bmuWriter, bmuReaders, removed, nBroadcast >>
  /\ UNCHANGED pvars

\* The holder of the receive-only cancel channel NewClient returned takes a
\* buffered value off it (buffered values are still delivered after a close).
CancelRecv(id) ==
  /\ ~crashed
  /\ Len(cancelChannel[id]) > 0
  /\ cancelChannel' = [cancelChannel EXCEPT ![id] = Tail(@)]
  /\ UNCHANGED << clients, nextId, sseChannel, sseClosed, cancelClosed,
                  isCancelled, clientMu, bmuWriter, bmuReaders, calls, lastRet,
                  removed, cancelOk, nBroadcast, crashed >>
  /\ UNCHANGED pvars

\* ------------------------------------------------------------------------
\* Broadcaster.RemoveClient
\* ------------------------------------------------------------------------
\* variant: a RemoveClient that looks the client up without taking b.mu
RemoveLock_Unlocked(id) ==
  /\ ~crashed
  /\ CanCall
  /\ IF Found(id)
     THEN /\ calls' = Started(Call("rCloseSse", id, "none", {}, {}))
          /\ UNCHANGED lastRet
     ELSE /\ lastRet' = Result("RemoveClient", id, "nil", {})
          /\ UNCHANGED calls
  /\ UNCHANGED << clients, nextId, sseChannel, sseClosed, cancelChannel,
                  cancelClosed, isCancelled, clientMu, bmuWriter, bmuReaders,
                  removed, cancelOk, nBroadcast, crashed >>
  /\ UNCHANGED pvars

\* the call; b.mu.Lock(); clientInfo, ok := b.clients[clientID]
RemoveLock(id) ==
  /\ ~crashed
  /\ CanCall
  /\ CanLock
  /\ IF Found(id)
     THEN /\ bmuWriter' = TRUE
          /\ calls' = Started(Call("rCloseSse", id, "none", {}, {}))
          /\ UNCHANGED lastRet
     ELSE /\ lastRet' = Result("RemoveClient", id, "nil", {})
          /\ UNCHANGED << bmuWriter, calls >>
  /\ UNCHANGED << clients, nextId, sseChannel, sseClosed, cancelChannel,
                  cancelClosed, isCancelled, clientMu, bmuReaders, removed,
                  cancelOk, nBroadcast, crashed >>
  /\ UNCHANGED pvars

\* close(clientInfo.sseChannel); closing a closed channel panics and the
\* deferred b.mu.Unlock() runs
RemoveCloseSse(c) ==
  /\ ~crashed
  /\ c.at = "rCloseSse"
  /\ IF sseClosed[c.arg]
     THEN /\ lastRet' = Result("RemoveClient", c.arg, Panicked, {})
          /\ calls' = Finished(c)
          /\ bmuWriter' = FALSE
          /\ crashed' \in BOOLEAN
          /\ UNCHANGED sseClosed
     ELSE /\ sseClosed' = [sseClosed EXCEPT ![c.arg] = TRUE]
          /\ calls' = Moved(c, [c EXCEPT !.at = "rCloseCancel"])
          /\ UNCHANGED << lastRet, bmuWriter, crashed >>
  /\ UNCHANGED << clients, nextId, sseChannel, cancelChannel, cancelClosed,
                  isCancelled, clientMu, bmuReaders, removed, cancelOk,
                  nBroadcast >>
  /\ UNCHANGED pvars

\* close(clientInfo.cancelChannel)
RemoveCloseCancel(c) ==
  /\ ~crashed
  /\ c.at = "rCloseCancel"
  /\ IF cancelClosed[c.arg]
     THEN /\ lastRet' = Result("RemoveClient", c.arg, Panicked, {})
          /\ calls' = Finished(c)
          /\ bmuWriter' = FALSE
          /\ crashed' \in BOOLEAN
          /\ UNCHANGED cancelClosed
     ELSE /\ cancelClosed' = [cancelClosed EXCEPT ![c.arg] = TRUE]
          /\ calls' = Moved(c, [c EXCEPT !.at = "rDelete"])
          /\ UNCHANGED << lastRet, bmuWriter, crashed >>
  /\ UNCHANGED << clients, nextId, sseChannel, sseClosed, cancelChannel,
                  isCancelled, clientMu, bmuReaders, removed, cancelOk,
                  nBroadcast >>
  /\ UNCHANGED pvars

\* variant: RemoveClient that empties the whole map
DeleteClient_All(id) == {}

\* variant: RemoveClient that closes the channels but keeps the map entry
DeleteClient_Kept(id) == clients

\* the map after delete(b.clients, clientID)
DeleteClient(id) == clients \ {id}

\* delete(b.clients, clientID); the deferred b.mu.Unlock(); return
RemoveDelete(c) ==
  /\ ~crashed
  /\ c.at = "rDelete"
  /\ clients' = DeleteClient(c.arg)
  /\ removed' = removed \cup {c.arg}
  /\ bmuWriter' = FALSE
  /\ calls' = Finished(c)
  /\ lastRet' = Result("RemoveClient", c.arg, "nil", {})
  /\ UNCHANGED << nextId, sseChannel, sseClosed, cancelChannel, cancelClosed,
                  isCancelled, clientMu, bmuReaders, cancelOk, nBroadcast,
                  crashed >>
  /\ UNCHANGED pvars

\* ------------------------------------------------------------------------
\* Broadcaster.ListActiveImports and Broadcaster.GetClientSSEChannel
\* ------------------------------------------------------------------------
\* the call; b.mu.RLock(); the iteration over b.clients begins
ListRLock ==
  /\ ~crashed
  /\ CanCall
  /\ CanRLock
  /\ bmuReaders' = bmuReaders + 1
  /\ calls' = Started(Call("lVisit", NoSuchClient, "none", clients, {}))
  /\ UNCHANGED << clients, nextId, sseChannel, sseClosed, cancelChannel,
                  cancelClosed, isCancelled, clientMu, bmuWriter, lastRet,
                  removed, cancelOk, nBroadcast, crashed >>
  /\ UNCHANGED pvars

\* variant: a loop that appends every ID it visits
AppendIfActive_Always(act, id) == act \cup {id}

\* `if !isCancelled { activeIDs = append(activeIDs, id) }`
AppendIfActive(act, id) == IF ~isCancelled[id] THEN act \cup {id} ELSE act

\* one iteration: clientInfo.mu.Lock(); read isCancelled; Unlock(); append
ListVisit(c) ==
  /\ ~crashed
  /\ c.at = "lVisit"
  /\ \E id \in c.rem :
       /\ ~clientMu[id]
       /\ calls' = Moved(c, [c EXCEPT !.rem = @ \ {id},
                                      !.act = AppendIfActive(@, id)])
  /\ UNCHANGED << clients, nextId, sseChannel, sseClosed, cancelChannel,
                  cancelClosed, isCancelled, clientMu, bmuWriter, bmuReaders,
                  lastRet, removed, cancelOk, nBroadcast, crashed >>
  /\ UNCHANGED pvars

\* return activeIDs; the deferred b.mu.RUnlock()
ListReturn(c) ==
  /\ ~crashed
  /\ c.at = "lVisit"
  /\ c.rem = {}
  /\ bmuReaders' = bmuReaders - 1
  /\ lastRet' = Result("ListActiveImports", NoSuchClient, "nil", c.act)
  /\ calls' = Finished(c)
  /\ UNCHANGED << clients, nextId, sseChannel, sseClosed, cancelChannel,
                  cancelClosed, isCancelled, clientMu, bmuWriter, removed,
                  cancelOk, nBroadcast, crashed >>
  /\ UNCHANGED pvars

\* the whole call under b.mu.RLock(): the client's channel, or nil
GetClientSSEChannel(id) ==
  /\ ~crashed
  /\ CanCall
  /\ CanRLock
  /\ lastRet' = Result("GetClientSSEChannel", id, "nil",
                       IF Found(id) THEN {id} ELSE {})
  /\ UNCHANGED << clients, nextId, sseChannel, sseClosed, cancelChannel,
                  cancelClosed, isCancelled, clientMu, bmuWriter, bmuReaders,
                  calls, removed, cancelOk, nBroadcast, crashed >>
  /\ UNCHANGED pvars

\* ------------------------------------------------------------------------
\* Specifications of the Broadcaster
\* ------------------------------------------------------------------------
Init == InitPipeline /\ InitBroadcaster

InProgress == BagToSet(calls)

\* Goroutines issue any calls in any interleaving; events are distinguishable
\* and the number of Broadcast calls is bounded.
NextB ==
  \/ NewClient(MaxClients)
  \/ \E id \in KnownIds, ev \in Events : BroadcastLookup(id, ev, TRUE)
  \/ \E c \in InProgress : BroadcastCheck(c)
  \/ \E c \in InProgress : BroadcastSend(c)
  \/ \E id \in KnownIds : CancelLookup(id)
  \/ \E c \in InProgress : CancelLock(c)
  \/ \E c \in InProgress : CancelSend(c)
  \/ \E id \in KnownIds : RemoveLock(id)
  \/ \E c \in InProgress : RemoveCloseSse(c)
  \/ \E c \in InProgress : RemoveCloseCancel(c)
  \/ \E c \in InProgress : RemoveDelete(c)
  \/ ListRLock
  \/ \E c \in InProgress : ListVisit(c)
  \/ \E c \in InProgress : ListReturn(c)
  \/ \E id \in KnownIds : GetClientSSEChannel(id)

SpecB == Init /\ [][NextB]_vars

\* One session, one event value, any number of Broadcast calls: the event
\* buffer can fill up to its capacity.
FillEvents == {"e1"}

NextSat ==
  \/ NewClient(1)
  \/ \E id \in KnownIds, ev \in FillEvents : BroadcastLookup(id, ev, FALSE)
  \/ \E c \in InProgress : BroadcastCheck(c)
  \/ \E c \in InProgress : BroadcastSend(c)
  \/ \E id \in KnownIds : CancelLookup(id)
  \/ \E c \in InProgress : CancelLock(c)
  \/ \E c \in InProgress : CancelSend(c)
  \/ \E id \in KnownIds : RemoveLock(id)
  \/ \E c \in InProgress : RemoveCloseSse(c)
  \/ \E c \in InProgress : RemoveCloseCancel(c)
  \/ \E c \in InProgress : RemoveDelete(c)

SpecSat == Init /\ [][NextSat]_vars

\* Cancellation with a consumer: the task a session belongs to reads its
\* cancel channel while CancelImport and RemoveClient calls interleave.
NextC ==
  \/ NewClient(MaxClients)
  \/ \E id \in KnownIds : CancelLookup(id)
  \/ \E c \in InProgress : CancelLock(c)
  \/ \E c \in InProgress : CancelSend(c)
  \/ \E id \in ClientIds : CancelRecv(id)
  \/ \E id \in KnownIds : RemoveLock(id)
  \/ \E c \in InProgress : RemoveCloseSse(c)
  \/ \E c \in InProgress : RemoveCloseCancel(c)
  \/ \E c \in InProgress : RemoveDelete(c)

SpecC == Init /\ [][NextC]_vars

\* Registration next to sessions in use: a further NewClient is called while
\* earlier sessions receive events, are cancelled and are removed.
NextN ==
  \/ NewClient(MaxClients + 1)
  \/ \E id \in KnownIds, ev \in FillEvents : BroadcastLookup(id, ev, TRUE)
  \/ \E c \in InProgress : BroadcastCheck(c)
  \/ \E c \in InProgress : BroadcastSend(c)
  \/ \E id \in KnownIds : CancelLookup(id)
  \/ \E c \in InProgress : CancelLock(c)
  \/ \E c \in InProgress : CancelSend(c)
  \/ \E id \in KnownIds : RemoveLock(id)
  \/ \E c \in InProgress : RemoveCloseSse(c)
  \/ \E c \in InProgress : RemoveCloseCancel(c)
  \/ \E c \in InProgress : RemoveDelete(c)

SpecN == Init /\ [][NextN]_vars

\* Every operation of the Broadcaster on two sessions, the one an operation
\* is called on and another one: they are registered, used, cancelled,
\* listed and removed next to each other.
SessionRoles == {"called", "other"}

NextAll ==
  \/ NewClient(Cardinality(SessionRoles))
  \/ \E id \in KnownIds, ev \in FillEvents : BroadcastLookup(id, ev, TRUE)
  \/ \E c \in InProgress : BroadcastCheck(c)
  \/ \E c \in InProgress : BroadcastSend(c)
  \/ \E id \in KnownIds : CancelLookup(id)
  \/ \E c \in InProgress : CancelLock(c)
  \/ \E c \in InProgress : CancelSend(c)
  \/ \E id \in KnownIds : RemoveLock(id)
  \/ \E c \in InProgress : RemoveCloseSse(c)
  \/ \E c \in InProgress : RemoveCloseCancel(c)
  \/ \E c \in InProgress : RemoveDelete(c)
  \/ ListRLock
  \/ \E c \in InProgress : ListVisit(c)
  \/ \E c \in InProgress : ListReturn(c)
  \/ \E id \in KnownIds : GetClientSSEChannel(id)

SpecAll == Init /\ [][NextAll]_vars

\* ------------------------------------------------------------------------
\* Specifications of the pipeline
\* ------------------------------------------------------------------------

Next ==
  \/ GoOrchestrator
  \/ StartReturn
  \/ CloseStopChan
  \/ OrchSpawnWorker
  \/ OrchSpawnUpdater
  \/ OrchSpawnCloser
  \/ OrchTick(MaxTicks)
  \/ FetchSend
  \/ OrchStop
  \/ OrchReturn
  \/ \E w \in Workers : WorkerRecv(w)
  \/ \E w \in Workers : WorkerSend(w)
  \/ \E w \in Workers : WorkerExit(w)
  \/ UpdaterRecv
  \/ UpdaterExit
  \/ CloserWait
  \/ CloserClose

Spec == Init /\ [][Next]_vars

\* The service inside the process: its goroutines take steps only until main
\* has returned.
NextMain ==
  \/ GoOrchestrator
  \/ StartReturn
  \/ CloseStopChan
  \/ MainReturn
  \/ callerPc # "exited" /\ OrchSpawnWorker
  \/ callerPc # "exited" /\ OrchSpawnUpdater
  \/ callerPc # "exited" /\ OrchSpawnCloser
  \/ callerPc # "exited" /\ OrchTick(MaxTicks)
  \/ callerPc # "exited" /\ FetchSend
  \/ callerPc # "exited" /\ OrchStop
  \/ callerPc # "exited" /\ OrchReturn
  \/ \E w \in Workers : callerPc # "exited" /\ WorkerRecv(w)
  \/ \E w \in Workers : callerPc # "exited" /\ WorkerSend(w)
  \/ \E w \in Workers : callerPc # "exited" /\ WorkerExit(w)
  \/ callerPc # "exited" /\ UpdaterRecv
  \/ callerPc # "exited" /\ UpdaterExit
  \/ callerPc # "exited" /\ CloserWait
  \/ callerPc # "exited" /\ CloserClose

SpecMain == Init /\ [][NextMain]_vars

\* The service with its three workers, next to the service as it runs when
\* the spawning loop makes a single worker (numProcessorWorkers = 1): the
\* loop then has one iteration, here the last one, and the other workers
\* are never started.
InitOrder ==
  /\ callerPc = "start"
  /\ stopChan = "open"
  /\ orchPc = "unspawned"
  /\ spawnI \in {0, numProcessorWorkers - 1}
  /\ workerPc = [w \in Workers |-> "unspawned"]
  /\ workerDef = [w \in Workers |-> 0]
  /\ updaterPc = "unspawned"
  /\ closerPc = "unspawned"
  /\ defsToProcessChan = << >>
  /\ defsClosed = FALSE
  /\ resultsChan = << >>
  /\ resultsClosed = FALSE
  /\ processorsWg = 0
  /\ mainWg = 0
  /\ clock \in StartSeconds
  /\ ticks = 0
  /\ dummyDefinitions = << >>
  /\ fetchIdx = 0
  /\ enqueued = << >>
  /\ sunk = << >>
  /\ panicked = FALSE
  /\ InitBroadcaster

SpecOrder == InitOrder /\ [][Next]_vars

\* The service while main leaves it running: no stop signal is sent.
NextRunning ==
  \/ GoOrchestrator
  \/ StartReturn
  \/ OrchSpawnWorker
  \/ OrchSpawnUpdater
  \/ OrchSpawnCloser
  \/ OrchTick(MaxTicksRunning)
  \/ FetchSend
  \/ \E w \in Workers : WorkerRecv(w)
  \/ \E w \in Workers : WorkerSend(w)
  \/ UpdaterRecv

SpecRunning == Init /\ [][NextRunning]_vars

\* Slow workers: the ticker keeps delivering ticks while every worker is
\* still computing the item it took, so defsToProcessChan fills up.
NextFull ==
  \/ GoOrchestrator
  \/ StartReturn
  \/ OrchSpawnWorker
  \/ OrchSpawnUpdater
  \/ OrchSpawnCloser
  \/ OrchTick(MaxTicksFull)
  \/ FetchSend
  \/ \E w \in Workers : WorkerRecv(w)

SpecFull == Init /\ [][NextFull]_vars

\* Both components at their capacities.  The pipeline and the Broadcaster
\* share no state, so each is run from the other's initial state: the
\* Broadcaster as in SpecSat, the pipeline with a sink slower than the run,
\* so that resultsChan and then defsToProcessChan fill up.  The ticker's
\* period (embeddingTickerDuration) is ten times the 1.5 s a worker spends
\* on an item: a tick comes when no worker has a step left to take.
WorkersSettled ==
  \A w \in Workers :
     /\ workerPc[w] = "range" => Len(defsToProcessChan) = 0
     /\ workerPc[w] = "send" => Len(resultsChan) >= ResultsChanCap

NextCap ==
  \/ InitBroadcaster /\ GoOrchestrator
  \/ InitBroadcaster /\ StartReturn
  \/ InitBroadcaster /\ OrchSpawnWorker
  \/ InitBroadcaster /\ OrchSpawnUpdater
  \/ InitBroadcaster /\ OrchSpawnCloser
  \/ InitBroadcaster /\ WorkersSettled /\ OrchTick(MaxTicksCap)
  \/ InitBroadcaster /\ FetchSend
  \/ \E w \in Workers : InitBroadcaster /\ WorkerRecv(w)
  \/ \E w \in Workers : InitBroadcaster /\ WorkerSend(w)
  \/ InitPipeline /\ NewClient(1)
  \/ \E id \in KnownIds, ev \in FillEvents : InitPipeline /\ BroadcastLookup(id, ev, FALSE)
  \/ \E c \in InProgress : InitPipeline /\ BroadcastCheck(c)
  \/ \E c \in InProgress : InitPipeline /\ BroadcastSend(c)
  \/ \E id \in KnownIds : InitPipeline /\ CancelLookup(id)
  \/ \E c \in InProgress : InitPipeline /\ CancelLock(c)
  \/ \E c \in InProgress : InitPipeline /\ CancelSend(c)
  \/ \E id \in KnownIds : InitPipeline /\ RemoveLock(id)
  \/ \E c \in InProgress : InitPipeline /\ RemoveCloseSse(c)
  \/ \E c \in InProgress : InitPipeline /\ RemoveCloseCancel(c)
  \/ \E c \in InProgress : InitPipeline /\ RemoveDelete(c)

SpecCap == Init /\ [][NextCap]_vars

\* Fair scheduling of the goroutines: each goroutine that can take a step
\* eventually takes one.  The ticker and main's stop signal are not forced.
NextLive ==
  \/ GoOrchestrator
  \/ StartReturn
  \/ CloseStopChan
  \/ OrchSpawnWorker
  \/ OrchSpawnUpdater
  \/ OrchSpawnCloser
  \/ OrchTick(MaxTicksLive)
  \/ FetchSend
  \/ OrchStop
  \/ OrchReturn
  \/ \E w \in Workers : WorkerRecv(w)
  \/ \E w \in Workers : WorkerSend(w)
  \/ \E w \in Workers : WorkerExit(w)
  \/ UpdaterRecv
  \/ UpdaterExit
  \/ CloserWait
  \/ CloserClose

OrchProgress ==
  OrchSpawnWorker \/ OrchSpawnUpdater \/ OrchSpawnCloser \/ FetchSend
    \/ OrchStop \/ OrchReturn

WorkerProgress(w) == WorkerRecv(w) \/ WorkerSend(w) \/ WorkerExit(w)

FairSpec ==
  /\ Init
  /\ [][NextLive]_vars
  /\ WF_vars(GoOrchestrator \/ StartReturn)
  /\ WF_vars(OrchProgress)
  /\ \A w \in Workers : WF_vars(WorkerProgress(w))
  /\ WF_vars(UpdaterRecv \/ UpdaterExit)
  /\ WF_vars(CloserWait \/ CloserClose)

\* ------------------------------------------------------------------------
\* Helpers of the properties
\* ------------------------------------------------------------------------
AllWorkersExited == \A w \in Workers : workerPc[w] = "done"

Count(seq, x) == Cardinality({i \in DOMAIN seq : seq[i] = x})

PairwiseDistinct(seq) ==
  \A i, j \in DOMAIN seq : i # j => seq[i] # seq[j]

\* ------------------------------------------------------------------------
\* Properties of the pipeline
\* ------------------------------------------------------------------------
\* C1: resultsChan is closed only when all 3 workers have exited (and the
\* closer is about to close it only then); no worker is ever left to send on
\* the closed resultsChan, so the program never panics.
C1_CloseAfterWorkersExit ==
  /\ (resultsClosed \/ closerPc = "close") => AllWorkersExited
  /\ \A w \in Workers : workerPc[w] = "send" => ~resultsClosed
  /\ ~panicked

C1_Witness ==
  /\ resultsClosed
  /\ AllWorkersExited
  /\ Len(sunk) + Len(resultsChan) >= 3

\* C2: the shutdown events happen in the order input-close, workers exit,
\* output-close, sink exit, orchestrator return: an event of the list has
\* happened only if every earlier one has, and an event that has happened
\* stays so.
ShutdownOrder ==
  /\ (\E w \in Workers : workerPc[w] = "done") => defsClosed
  /\ resultsClosed => AllWorkersExited
  /\ updaterPc = "done" => resultsClosed
  /\ orchPc = "stopped" => updaterPc = "done"

ShutdownEventsStay ==
  /\ defsClosed => defsClosed'
  /\ \A w \in Workers : workerPc[w] = "done" => workerPc'[w] = "done"
  /\ resultsClosed => resultsClosed'
  /\ updaterPc = "done" => updaterPc' = "done"
  /\ orchPc = "stopped" => orchPc' = "stopped"

C2_StrictShutdownOrder == [](ShutdownOrder) /\ [][ShutdownEventsStay]_vars

C2_Witness ==
  /\ orchPc = "stopped"
  /\ Len(sunk) >= 3

\* C3: under fair scheduling, once stopChan is closed the orchestrator
\* eventually reaches Stopped; when it is Stopped all workers, the closer and
\* the updater have terminated and both WaitGroups are at zero.
Quiescent ==
  /\ AllWorkersExited
  /\ closerPc = "done"
  /\ updaterPc = "done"
  /\ processorsWg = 0
  /\ mainWg = 0

C3_StopLeadsToStopped ==
  /\ (stopChan = "closed") ~> (orchPc = "stopped")
  /\ [](orchPc = "stopped" => Quiescent)

C3_Witness ==
  /\ orchPc = "stopped"
  /\ Quiescent
  /\ ticks = 0

\* C4: when the orchestrator is Stopped the updater has received exactly one
\* result per enqueued item: as many results as items were enqueued, and for
\* every ID as many results as items enqueued under that ID.
C4_NoLossNoDuplication ==
  orchPc = "stopped" =>
    /\ Len(sunk) = Len(enqueued)
    /\ \A i \in DOMAIN enqueued : Count(sunk, enqueued[i]) = Count(enqueued, enqueued[i])
    /\ \A i \in DOMAIN sunk : Count(enqueued, sunk[i]) > 0

C4_Witness ==
  /\ orchPc = "stopped"
  /\ Len(enqueued) >= 4
  /\ Len(sunk) = Len(enqueued)

\* C5: the IDs of the items the fetcher enqueued, and so the DefinitionIDs of
\* the results the updater received, are pairwise distinct over the whole run.
C5_DistinctIDs ==
  /\ PairwiseDistinct(enqueued)
  /\ PairwiseDistinct(sunk)

\* ------------------------------------------------------------------------
\* Properties of the Broadcaster
\* ------------------------------------------------------------------------
\* the state of the sessions and of the registry
sessionState == << clients, nextId, sseChannel, sseClosed, cancelChannel,
                   cancelClosed, isCancelled >>

\* C6: cancellation is idempotent.  At most one CancelImport per session
\* returns nil, and the flag never goes back to false.  While the session's
\* channels have not been closed by RemoveClient: a set flag with no
\* CancelImport in its critical section means exactly one call has returned
\* nil; a call that found the session returns nil or "already cancelled",
\* never "signal send failed"; and the call that returns "already cancelled"
\* changes neither the flag nor the cancel channel.
CancelAtMostOnce ==
  \A id \in ClientIds :
    /\ cancelOk[id] <= 1
    /\ (isCancelled[id] /\ ~clientMu[id] /\ ~cancelClosed[id]) => cancelOk[id] = 1

CancelReturns ==
  /\ \A id \in ClientIds : isCancelled[id] => isCancelled'[id]
  /\ \A c \in { d \in InProgress : d.at \in {"cLock", "cSend"} } :
       /\ (CancelLock(c) /\ calls' = Finished(c)) =>
             /\ lastRet'.err = ErrAlreadyCancelled
             /\ ~cancelClosed[c.arg] => cancelOk[c.arg] = 1
             /\ UNCHANGED << isCancelled, cancelChannel, cancelOk >>
       /\ (CancelSend(c) /\ ~cancelClosed[c.arg]) =>
             /\ lastRet'.err = "nil"
             /\ cancelOk[c.arg] = 0
             /\ cancelChannel'[c.arg] = << TRUE >>

PostRemoval ==
  \A id \in removed :
    /\ (\E ev \in Events : BroadcastLookup(id, ev, TRUE)) =>
          /\ lastRet' = Result("Broadcast", id, ErrNotFound, {})
          /\ UNCHANGED << sessionState, calls, clientMu >>
    /\ CancelLookup(id) =>
          /\ lastRet' = Result("CancelImport", id, ErrNotFoundForCancellation, {})
          /\ UNCHANGED << sessionState, calls, clientMu >>
    /\ GetClientSSEChannel(id) => lastRet'.ids = {}
    /\ (\E c \in InProgress : ListReturn(c)) => id \notin lastRet'.ids

C7_PostRemovalIsolation == [][PostRemoval]_vars

C7_Witness ==
  /\ 1 \in removed
  /\ lastRet = Result("Broadcast", 1, ErrNotFound, {})

\* C8: a Broadcast whose send finds the event buffer of an active session
\* holding SseChanCap events returns "send failed"; the send is never made to
\* wait; the buffers, the flags and the registry stay as they were.
SaturatedSend ==
  \A c \in InProgress :
    ( /\ BroadcastSend(c)
      /\ Len(sseChannel[c.arg]) = SseChanCap
      /\ c.arg \in clients
      /\ ~isCancelled[c.arg]
      /\ ~sseClosed[c.arg] ) =>
        /\ lastRet' = Result("Broadcast", c.arg, ErrSendFailed, {})
        /\ UNCHANGED << sessionState, clientMu, crashed >>

SendNeverWaits ==
  \A c \in InProgress : (c.at = "bSend" /\ ~crashed) => ENABLED BroadcastSend(c)

C9_NoSendAfterClose ==
  /\ \A c \in InProgress :
       /\ c.at = "bSend" => ~sseClosed[c.arg]
       /\ c.at = "cSend" => ~cancelClosed[c.arg]
  /\ lastRet.err # Panicked

\* C10: every Broadcast call ends by returning nil, "not found" or
\* "send failed" to its caller (never by terminating abnormally).
C10_BroadcastAlwaysReturns ==
  lastRet.op = "Broadcast" => lastRet.err \in {"nil", ErrNotFound, ErrSendFailed}

\* C11: a Broadcast on a registered session whose isCancelled flag is true
\* returns nil at its check of the flag and is a no-op: its lookup and its
\* check leave every buffer, flag, channel, lock and the registry unchanged,
\* and the call ends there without reaching the send.
CancelledBroadcastNoOp ==
  /\ \A id \in clients :
       (isCancelled[id] /\ \E ev \in Events : BroadcastLookup(id, ev, TRUE)) =>
          UNCHANGED << sessionState, clientMu, lastRet >>
  /\ \A c \in { d \in InProgress : d.at = "bCheck" } :
       (isCancelled[c.arg] /\ BroadcastCheck(c)) =>
          /\ lastRet' = Result("Broadcast", c.arg, "nil", {})
          /\ calls' = Finished(c)
          /\ UNCHANGED << sessionState, clientMu, crashed >>

C11_CancelledBroadcastNoOp == [][CancelledBroadcastNoOp]_vars

C11_Witness ==
  /\ lastRet = Result("Broadcast", 1, "nil", {})
  /\ 1 \in clients
  /\ isCancelled[1]
  /\ sseChannel[1] = << >>

\* C12: over the lifetime of a session at most one value is ever sent on its
\* cancel channel; the value is true; the send is made by the CancelImport
\* call that returns nil, and by no other step; with no CancelImport that
\* returned nil the channel has never held a value.
CancelSentOnce ==
  \A id \in ClientIds :
    /\ cancelOk[id] <= 1
    /\ Len(cancelChannel[id]) <= cancelOk[id]
    /\ \A i \in DOMAIN cancelChannel[id] : cancelChannel[id][i] = TRUE

CancelSentBySuccess ==
  \A id \in ClientIds :
    /\ Len(cancelChannel'[id]) > Len(cancelChannel[id]) =>
          /\ cancelChannel'[id] = Append(cancelChannel[id], TRUE)
          /\ cancelOk'[id] = cancelOk[id] + 1
          /\ lastRet' = Result("CancelImport", id, "nil", {})
    /\ cancelOk'[id] # cancelOk[id] =>
          Len(cancelChannel'[id]) = Len(cancelChannel[id]) + 1

C12_CancelFiresOnce == [](CancelSentOnce) /\ [][CancelSentBySuccess]_vars

C12_Witness ==
  /\ cancelOk[1] = 1
  /\ cancelChannel[1] = << >>
  /\ lastRet = Result("CancelImport", 1, ErrAlreadyCancelled, {})

\* ------------------------------------------------------------------------
\* Further properties of the pipeline
\* ------------------------------------------------------------------------
\* C13: the fetcher's send never waits.  When defsToProcessChan holds
\* DefsChanCap items the item is dropped: the queue and the record of
\* enqueued items stay as they are; otherwise the item is appended at the
\* tail.  Either way the fetcher goes on to its next item, and after the last
\* one the orchestrator is back at its select, running.
FetcherSendNeverWaits == (orchPc = "fetch" /\ ~panicked) => ENABLED FetchSend

DropOnFull ==
  FetchSend =>
    /\ IF Len(defsToProcessChan) = DefsChanCap
       THEN UNCHANGED << defsToProcessChan, enqueued >>
       ELSE defsToProcessChan' =
              Append(defsToProcessChan, dummyDefinitions[fetchIdx])
    /\ Len(defsToProcessChan') <= DefsChanCap
    /\ IF fetchIdx < Len(dummyDefinitions)
       THEN orchPc' = "fetch" /\ fetchIdx' = fetchIdx + 1
       ELSE orchPc' = "select"
    /\ ~panicked'

C13_DropOnFull == [](FetcherSendNeverWaits) /\ [][DropOnFull]_vars

C13_Witness ==
  /\ orchPc = "select"
  /\ Len(defsToProcessChan) = DefsChanCap
  /\ Len(enqueued) < 2 * ticks

\* C14: StartEmbeddingCalculatorService can return as soon as the
\* orchestrator goroutine is spawned: whatever the goroutines have or have
\* not done, and with stopChan open, its return is enabled; the return
\* changes nothing but the caller's position.
StartReturnEnabled == (callerPc = "spawned" /\ ~panicked) => ENABLED StartReturn

StartReturnWaitsForNothing ==
  (callerPc = "spawned" /\ callerPc' = "returned") =>
     /\ stopChan = "open"
     /\ UNCHANGED << stopChan, orchPc, workerPc, updaterPc, closerPc, ticks >>

C14_StartReturnsImmediately ==
  [](StartReturnEnabled) /\ [][StartReturnWaitsForNothing]_vars

C14_Witness ==
  /\ callerPc = "returned"
  /\ orchPc = "spawnWorkers"
  /\ stopChan = "open"
  /\ ticks = 0

\* C15: the updater exits only when resultsChan is closed and empty, it
\* receives whatever result is at the head of resultsChan, and the
\* orchestrator returns only after the updater has exited; when the
\* orchestrator is Stopped resultsChan is empty, no worker holds an item and
\* the updater has received a result for every item that was enqueued.
ResultsInFlight ==
  Len(defsToProcessChan)
    + Cardinality({w \in Workers : workerPc[w] = "send"})
    + Len(resultsChan)

SinkDrains ==
  /\ updaterPc = "done" => (resultsClosed /\ Len(resultsChan) = 0)
  /\ orchPc = "stopped" =>
        /\ updaterPc = "done"
        /\ ResultsInFlight = 0
        /\ Len(sunk) = Len(enqueued)
  /\ (updaterPc = "range" /\ Len(resultsChan) > 0 /\ ~panicked) =>
        ENABLED UpdaterRecv
  /\ Len(enqueued) = ResultsInFlight + Len(sunk)

SinkExitStep ==
  (updaterPc = "range" /\ updaterPc' = "done") =>
     (resultsClosed /\ Len(resultsChan) = 0 /\ orchPc # "stopped")

C15_SinkDrainsBeforeReturn == [](SinkDrains) /\ [][SinkExitStep]_vars

C15_Witness ==
  /\ resultsClosed
  /\ Len(resultsChan) >= 2
  /\ updaterPc = "range"
  /\ orchPc = "waitMain"

\* C16: a worker leaves its receive loop only in a step taken with
\* defsToProcessChan closed and empty; once all workers have exited no item
\* is left in defsToProcessChan or in a worker's hands, and a result has been
\* sent to resultsChan for every item that was enqueued (so for every item
\* buffered or held when the queue was closed).
WorkerExitStep ==
  \A w \in Workers :
    (workerPc[w] # "done" /\ workerPc'[w] = "done") =>
       /\ workerPc[w] = "range"
       /\ defsClosed
       /\ Len(defsToProcessChan) = 0

WorkersDrained ==
  /\ (\E w \in Workers : workerPc[w] = "done") =>
        (defsClosed /\ Len(defsToProcessChan) = 0)
  /\ AllWorkersExited =>
        /\ \A w \in Workers : workerDef[w] = 0
        /\ Len(resultsChan) + Len(sunk) = Len(enqueued)

C16_DrainThenExit == [](WorkersDrained) /\ [][WorkerExitStep]_vars

C16_Witness ==
  /\ defsClosed
  /\ Len(defsToProcessChan) >= 2
  /\ \E w \in Workers : workerPc[w] = "send"

\* ------------------------------------------------------------------------
\* Further properties of the Broadcaster
\* ------------------------------------------------------------------------
\* C17 (as stated): the list ListActiveImports returns is exactly the set of
\* registered sessions whose isCancelled flag is false while it still holds
\* the registry read lock at its return: no cancelled session in it, no
\* active registered session missing.
ListIsActiveSet ==
  (\E c \in InProgress : ListReturn(c)) =>
     lastRet'.ids = { id \in clients : ~isCancelled[id] }

C17_ListIsExactActiveSet == [][ListIsActiveSet]_vars

\* C17 (amended): ListActiveImports returns registered IDs only, each added
\* when its flag was read as false under the session's mutex during the call;
\* it never includes a removed session, never omits a registered session that
\* is still not cancelled when it returns (an ID it visited and left out is
\* cancelled), and none of its steps changes a session, a lock it does not
\* hold or the registry.  A session cancelled after its flag was read may
\* still be in the result.
ListSoFar ==
  \A c \in { d \in InProgress : d.at = "lVisit" } :
    /\ (c.act \cup c.rem) \subseteq clients
    /\ c.act \cap c.rem = {}
    /\ c.act \cap removed = {}
    /\ \A id \in clients \ (c.act \cup c.rem) : isCancelled[id]
    /\ bmuReaders > 0
    /\ ~bmuWriter

ListSteps ==
  /\ ListRLock => UNCHANGED << sessionState, clientMu, lastRet >>
  /\ \A c \in { d \in InProgress : d.at = "lVisit" } :
       /\ ListVisit(c) =>
            /\ \E id \in c.rem :
                 calls' = Moved(c, [c EXCEPT
                            !.rem = @ \ {id},
                            !.act = IF isCancelled[id] THEN @ ELSE @ \cup {id}])
            /\ UNCHANGED << sessionState, clientMu, lastRet >>
       /\ ListReturn(c) =>
            /\ lastRet' = Result("ListActiveImports", NoSuchClient, "nil", c.act)
            /\ c.act \subseteq clients
            /\ c.act \cap removed = {}
            /\ \A id \in clients : ~isCancelled[id] => id \in c.act
            /\ UNCHANGED << sessionState, clientMu >>

C17_ListReadsEachFlagUnderLock == [](ListSoFar) /\ [][ListSteps]_vars

C17_Witness ==
  /\ lastRet = Result("ListActiveImports", NoSuchClient, "nil", {1})
  /\ 1 \in clients
  /\ isCancelled[1]
  /\ cancelOk[1] = 1

\* C18: lock order and deadlock freedom.  The registry lock is taken only by
\* a call that is starting and so holds no lock; a session's mutex is held
\* across steps only by a CancelImport at its send, whose step needs no
\* other lock; the lock variables agree with the calls that hold them.  No
\* reachable state has calls waiting on each other for ever: every call in
\* progress can take its next step, or waits for a session's mutex whose
\* holder can take its step.
CallsAt(ats) ==
  BagCardinality([c \in { d \in InProgress : d.at \in ats } |-> CopiesIn(c, calls)])

CallStep(c) ==
  \/ BroadcastCheck(c)
  \/ BroadcastSend(c)
  \/ CancelLock(c)
  \/ CancelSend(c)
  \/ RemoveCloseSse(c)
  \/ RemoveCloseCancel(c)
  \/ RemoveDelete(c)
  \/ ListVisit(c)
  \/ ListReturn(c)

LockOrder ==
  /\ \A id \in ClientIds :
       clientMu[id] <=>
         (\E c \in InProgress : c.at = "cSend" /\ c.arg = id /\ CopiesIn(c, calls) = 1)
  /\ bmuWriter <=> CallsAt({"rCloseSse", "rCloseCancel", "rDelete"}) = 1
  /\ bmuReaders = CallsAt({"lVisit"})
  /\ ~(bmuWriter /\ bmuReaders > 0)
  /\ \A c \in InProgress :
       (c.at \in {"cSend", "rCloseSse", "rCloseCancel", "rDelete"} /\ ~crashed)
          => ENABLED CallStep(c)

NoDeadlock ==
  ~crashed =>
    \A c \in InProgress :
      \/ ENABLED CallStep(c)
      \/ \E d \in InProgress :
           /\ d.at = "cSend"
           /\ (c.at \in {"bCheck", "cLock"} => d.arg = c.arg)
           /\ (c.at = "lVisit" => d.arg \in c.rem)
           /\ ENABLED CallStep(d)

RegistryLockFirst ==
  ((bmuWriter' /\ ~bmuWriter) \/ bmuReaders' > bmuReaders) =>
     /\ BagCardinality(calls') = BagCardinality(calls) + 1
     /\ UNCHANGED clientMu

C18_LockOrderNoDeadlock ==
  [](LockOrder /\ NoDeadlock) /\ [][RegistryLockFirst]_vars

C18_Witness ==
  /\ clientMu[1]
  /\ bmuReaders > 0
  /\ \E c \in InProgress : c.at = "lVisit" /\ 1 \in c.rem

\* C19: every Broadcast and CancelImport call returns to its caller.  A
\* consequence that a finite run can refute: the send of a call in progress
\* is never made to wait, no Broadcast or CancelImport call has ended in a
\* panic instead of a return, and no such call is left in a crashed program.
C19_CallsAlwaysReturn ==
  /\ \A c \in InProgress :
       (c.at \in {"bSend", "cSend"} /\ ~crashed) => ENABLED CallStep(c)
  /\ lastRet.op \in {"Broadcast", "CancelImport"} => lastRet.err # Panicked
  /\ crashed => CallsAt({"bCheck", "bSend", "cLock", "cSend"}) = 0

\* C20: NewClient adds exactly one session, under an ID that is not in the
\* registry (and never was), with isCancelled false and both channels open
\* and empty, and returns that ID; the capacities are 32 and 1; every other
\* session, the locks and the calls in progress stay as they are.
NewClientAddsOne ==
  NewClient(MaxClients + 1) =>
    \E id \in ClientIds :
      /\ id \notin clients
      /\ id \notin removed
      /\ clients' = clients \cup {id}
      /\ lastRet' = Result("NewClient", NoSuchClient, "nil", {id})
      /\ ~isCancelled'[id]
      /\ sseChannel'[id] = << >> /\ ~sseClosed'[id]
      /\ cancelChannel'[id] = << >> /\ ~cancelClosed'[id]
      /\ SelectSend(sseClosed'[id], SseChanCap - 1, SseChanCap) = "sent"
      /\ SelectSend(sseClosed'[id], SseChanCap, SseChanCap) = "default"
      /\ SelectSend(cancelClosed'[id], CancelChanCap - 1, CancelChanCap) = "sent"
      /\ SelectSend(cancelClosed'[id], CancelChanCap, CancelChanCap) = "default"
      /\ SseChanCap = 32
      /\ CancelChanCap = 1
      /\ \A other \in ClientIds \ {id} :
           /\ sseChannel'[other] = sseChannel[other]
           /\ cancelChannel'[other] = cancelChannel[other]
           /\ isCancelled'[other] = isCancelled[other]
           /\ sseClosed'[other] = sseClosed[other]
           /\ cancelClosed'[other] = cancelClosed[other]
      /\ UNCHANGED << clientMu, calls, removed, cancelOk >>

C20_NewClientAddsOne == [][NewClientAddsOne]_vars

C20_Witness ==
  /\ lastRet = Result("NewClient", NoSuchClient, "nil", {2})
  /\ clients = {1, 2}
  /\ isCancelled[1]
  /\ Len(sseChannel[1]) = 1
  /\ ~isCancelled[2]

\* ------------------------------------------------------------------------
\* One session's event channel with a reader: Broadcast calls are started
\* while fewer than MaxBuffered events of the session are buffered or being
\* sent, the reader takes events from the head.
NextD ==
  \/ NewClient(1)
  \/ \E id \in KnownIds, ev \in Events :
       /\ CallsAt({"bCheck", "bSend"})
            + (IF id \in ClientIds THEN Len(sseChannel[id]) ELSE 0) < MaxBuffered
       /\ BroadcastLookup(id, ev, FALSE)
  \/ \E c \in InProgress : BroadcastCheck(c)
  \/ \E c \in InProgress : BroadcastSend(c)
  \/ \E id \in ClientIds : SseRecv(id)
  \/ \E id \in KnownIds : CancelLookup(id)
  \/ \E c \in InProgress : CancelLock(c)
  \/ \E c \in InProgress : CancelSend(c)
  \/ \E id \in KnownIds : RemoveLock(id)
  \/ \E c \in InProgress : RemoveCloseSse(c)
  \/ \E c \in InProgress : RemoveCloseCancel(c)
  \/ \E c \in InProgress : RemoveDelete(c)

SpecD == Init /\ [][NextD]_vars

\* the RemoveClient calls that are inside their critical section on id
Removing(id) ==
  { c \in InProgress : c.at \in {"rCloseSse", "rCloseCancel", "rDelete"} /\ c.arg = id }

RemoveOnce ==
  /\ CallsAt({"rCloseSse", "rCloseCancel", "rDelete"}) = (IF bmuWriter THEN 1 ELSE 0)
  /\ bmuWriter => bmuReaders = 0
  /\ bmuWriter =>
       /\ ~ ENABLED NewClient(MaxClients + 1)
       /\ ~ ENABLED ListRLock
       /\ \A id \in KnownIds :
            /\ ~ ENABLED RemoveLock(id)
            /\ ~ ENABLED CancelLookup(id)
            /\ ~ ENABLED GetClientSSEChannel(id)
            /\ ~ ENABLED BroadcastLookup(id, "e1", FALSE)
  /\ lastRet.op = "RemoveClient" => lastRet.err = "nil"
  /\ \A id \in ClientIds :
       /\ id \in removed => sseClosed[id] /\ cancelClosed[id] /\ ~Found(id)
       /\ sseClosed[id] =>
            \/ id \in removed
            \/ \E c \in Removing(id) : c.at \in {"rCloseCancel", "rDelete"}
       /\ cancelClosed[id] =>
            \/ id \in removed
            \/ \E c \in Removing(id) : c.at = "rDelete"
       /\ \A c \in Removing(id) :
            /\ Found(id)
            /\ c.at = "rCloseSse" => ~sseClosed[id] /\ ~cancelClosed[id]
            /\ c.at = "rCloseCancel" => sseClosed[id] /\ ~cancelClosed[id]
            /\ c.at = "rDelete" => sseClosed[id] /\ cancelClosed[id]

RemoveSteps ==
  /\ \A id \in ClientIds :
       /\ sseClosed[id] => sseClosed'[id]
       /\ cancelClosed[id] => cancelClosed'[id]
       /\ sseClosed'[id] # sseClosed[id] =>
            \E c \in Removing(id) : c.at = "rCloseSse" /\ RemoveCloseSse(c)
       /\ cancelClosed'[id] # cancelClosed[id] =>
            \E c \in Removing(id) : c.at = "rCloseCancel" /\ RemoveCloseCancel(c)
       /\ Found(id) /\ ~Found(id)' =>
            \E c \in Removing(id) : c.at = "rDelete" /\ RemoveDelete(c)
  /\ \A id \in KnownIds :
       ~Found(id) /\ RemoveLock(id) =>
          /\ UNCHANGED << sessionState, calls, removed, bmuWriter >>
          /\ lastRet' = Result("RemoveClient", id, "nil", {})

\* C21: RemoveClient closes each channel of a session exactly once.  The two
\* closes and the delete of a registered session happen inside one critical
\* section of the exclusive registry lock, during which no other call can
\* look the registry up; a channel is closed only by that critical section,
\* only while it is open, and stays closed; a RemoveClient of an absent or
\* already removed identifier changes nothing and returns; no RemoveClient
\* ever ends in the panic of a second close.
C21_RemoveClosesOnce == [](RemoveOnce) /\ [][RemoveSteps]_vars

C21_Witness ==
  /\ 1 \in removed
  /\ sseClosed[1] /\ cancelClosed[1]
  /\ ~bmuWriter
  /\ lastRet = Result("RemoveClient", 1, "nil", {})
  /\ \E c \in InProgress : c.arg = 1 /\ c.at \in {"bCheck", "bSend", "cLock"}

DeliverySteps ==
  /\ \A c \in InProgress :
       /\ (c.at = "bSend" /\ BroadcastSend(c) /\ lastRet'.err = "nil") =>
             sseChannel' = [sseChannel EXCEPT ![c.arg] = Append(@, c.ev)]
       /\ (c.at = "bCheck" /\ BroadcastCheck(c) /\ calls' = Finished(c)) =>
             /\ isCancelled[c.arg]
             /\ UNCHANGED sseChannel
  /\ \A id \in ClientIds :
       sseChannel'[id] # sseChannel[id] =>
          \/ \E c \in InProgress :
               /\ c.at = "bSend" /\ c.arg = id /\ c.ev \in Events
               /\ calls' = Finished(c)
               /\ lastRet' = Result("Broadcast", id, "nil", {})
               /\ sseChannel'[id] = Append(sseChannel[id], c.ev)
          \/ /\ Len(sseChannel[id]) > 0
             /\ sseChannel'[id] = Tail(sseChannel[id])
             /\ UNCHANGED << calls, lastRet >>

\* C22: verbatim FIFO delivery.  A Broadcast that returns nil from its send
\* has put exactly its event, unchanged, at the tail of the session's buffer
\* (a nil return without a send happens only on a cancelled session); the
\* buffer changes in no other way than by such an append or by the reader
\* taking the head, so the reader gets the events of the successful
\* Broadcast calls in the order they were enqueued, each once.
C22_VerbatimFifo == [][DeliverySteps]_vars

C22_Witness ==
  /\ sseChannel[1] = << "e2", "e1" >>
  /\ lastRet = Result("Broadcast", 1, "nil", {})
  /\ ~isCancelled[1]
  /\ ~sseClosed[1]

\* C23: program-level graceful shutdown.  When main has returned and the
\* process has exited, the orchestrator is Stopped and the sink has consumed
\* every item that was enqueued.
C23_StoppedBeforeMainReturns ==
  callerPc = "exited" =>
    /\ orchPc = "stopped"
    /\ Len(sunk) = Len(enqueued)

\* the workers that hold an item: received and its result not yet sent
Holding == { w \in Workers : workerPc[w] = "send" }

\* how many of the items enqueued under id are in each place
InInput(id) == Count(defsToProcessChan, id)
InWorkers(id) == Cardinality({ w \in Holding : workerDef[w] = id })
InOutput(id) == Cardinality({ i \in DOMAIN resultsChan : resultsChan[i].DefinitionID = id })
InSink(id) == Count(sunk, id)

\* C25: conservation.  Every enqueued item is in exactly one place: for every
\* ID, as many items were enqueued under it as are in the input queue, held
\* by workers, in the output queue as results and consumed by the sink,
\* taken together, and nothing else is in any of these places; a worker
\* holds an item only between its receive and its send, so at most
\* numProcessorWorkers items are being processed at once.
C25_Conservation ==
  /\ \A i \in DOMAIN enqueued :
       Count(enqueued, enqueued[i])
         = InInput(enqueued[i]) + InWorkers(enqueued[i])
             + InOutput(enqueued[i]) + InSink(enqueued[i])
  /\ Len(enqueued)
       = Len(defsToProcessChan) + Cardinality(Holding) + Len(resultsChan) + Len(sunk)
  /\ \A w \in Workers : w \notin Holding => workerDef[w] = 0
  /\ \A w \in Holding : Count(enqueued, workerDef[w]) > 0
  /\ Cardinality(Holding) <= numProcessorWorkers

C25_Witness ==
  /\ Len(defsToProcessChan) > 0
  /\ Cardinality(Holding) = numProcessorWorkers
  /\ Len(resultsChan) > 0
  /\ Len(sunk) > 0

WorkerSteps ==
  /\ \A w \in Workers :
       /\ workerPc'[w] = "send" /\ workerPc[w] # "send" =>
            /\ workerPc[w] = "range"
            /\ Len(defsToProcessChan) > 0
            /\ workerDef'[w] = Head(defsToProcessChan)
            /\ defsToProcessChan' = Tail(defsToProcessChan)
            /\ UNCHANGED resultsChan
       /\ workerPc[w] = "send" /\ workerPc'[w] # "send" =>
            /\ workerPc'[w] = "range"
            /\ resultsChan' = Append(resultsChan,
                                     [DefinitionID |-> workerDef[w], Error |-> FALSE])
            /\ UNCHANGED defsToProcessChan
       /\ workerPc[w] = "send" /\ workerPc'[w] = "send" => workerDef'[w] = workerDef[w]
       /\ workerPc'[w] = "done" /\ workerPc[w] # "done" =>
            /\ workerPc[w] = "range"
            /\ defsClosed
            /\ Len(defsToProcessChan) = 0
  /\ Len(resultsChan') > Len(resultsChan) =>
       \E w \in Workers :
          /\ workerPc[w] = "send" /\ workerPc'[w] = "range"
          /\ resultsChan' = Append(resultsChan,
                                   [DefinitionID |-> workerDef[w], Error |-> FALSE])
          /\ \A v \in Workers \ {w} : workerPc'[v] = workerPc[v]
  /\ Len(defsToProcessChan') < Len(defsToProcessChan) =>
       \E w \in Workers : workerPc[w] = "range" /\ workerPc'[w] = "send"

\* C26: one result per received item.  A worker receives an item only while
\* it holds none; the step that ends its holding an item sends exactly one
\* result, whose DefinitionID is the ID of that item, and takes it back to
\* its receive; a result enters the output queue only by such a step; a
\* worker leaves its loop only from its receive, when the input queue is
\* closed and empty, and its send never meets a closed output queue.
C26_OneResultPerItem ==
  /\ [][WorkerSteps]_vars
  /\ [](~panicked /\ \A w \in Workers : workerPc[w] = "send" => ~resultsClosed)

C26_Witness ==
  /\ \E w \in Workers : workerPc[w] = "done"
  /\ \E w \in Workers : workerPc[w] = "send" /\ workerDef[w] = enqueued[Len(enqueued)]
  /\ Len(resultsChan) >= 2
  /\ Len(sunk) >= 2

\* the orchestrator's phase: Starting until its loop begins, Running in the
\* loop (at the select or inside the fetcher), ShuttingDown from the close of
\* the input queue to the return of mainWg.Wait(), Stopped after its return
Phase ==
  IF orchPc = "stopped" THEN "Stopped"
  ELSE IF orchPc = "waitMain" THEN "ShuttingDown"
  ELSE IF orchPc \in {"select", "fetch"} THEN "Running"
  ELSE "Starting"

PhaseSteps ==
  /\ Phase' # Phase =>
       \/ Phase = "Starting" /\ Phase' = "Running"
       \/ Phase = "Running" /\ Phase' = "ShuttingDown"
       \/ Phase = "ShuttingDown" /\ Phase' = "Stopped"
  /\ Phase = "Stopped" =>
       UNCHANGED << orchPc, defsToProcessChan, defsClosed, enqueued, ticks,
                    dummyDefinitions, fetchIdx >>
  /\ (orchPc' = "fetch" \/ enqueued' # enqueued
        \/ Len(defsToProcessChan') > Len(defsToProcessChan)) =>
       /\ Phase = "Running" /\ Phase' = "Running"
       /\ ~defsClosed /\ ~defsClosed'
  /\ defsClosed => defsClosed'
  /\ defsClosed' # defsClosed =>
       /\ Phase = "Running" /\ Phase' = "ShuttingDown"
       /\ stopChan = "closed"

\* C27: the orchestrator moves only from Running to ShuttingDown to Stopped
\* and nothing of its own changes once it is Stopped; the fetcher runs and
\* items enter the input queue only while it is Running and the queue is
\* open; the queue is closed by the one step from Running to ShuttingDown,
\* stays closed, and neither a second close nor a send on the closed queue
\* ever happens.
C27_OrchestratorPhases ==
  /\ [][PhaseSteps]_vars
  /\ [](~panicked /\ (defsClosed <=> Phase \in {"ShuttingDown", "Stopped"}))

C27_Witness ==
  /\ Phase = "Stopped"
  /\ defsClosed
  /\ ticks >= 2
  /\ Len(enqueued) = 2 * ticks

\* C28: the stop signal is the only shutdown trigger.  While stopChan has not
\* been closed, whatever the ticks, the drops and the items processed so
\* far: both queues are open, no worker, closer, updater or orchestrator has
\* left its loop or is about to, and none of the steps that close the input
\* queue or end a goroutine can be taken.
C28_StopIsSoleTrigger ==
  stopChan = "open" =>
    /\ ~defsClosed /\ ~resultsClosed
    /\ Phase \in {"Starting", "Running"}
    /\ \A w \in Workers : workerPc[w] \in {"unspawned", "range", "send"}
    /\ updaterPc \in {"unspawned", "range"}
    /\ closerPc \in {"unspawned", "wait"}
    /\ ~ ENABLED OrchStop
    /\ ~ ENABLED OrchReturn
    /\ ~ ENABLED CloserWait
    /\ ~ ENABLED CloserClose
    /\ ~ ENABLED UpdaterExit
    /\ \A w \in Workers : ~ ENABLED WorkerExit(w)

C28_Witness ==
  /\ stopChan = "open"
  /\ callerPc = "returned"
  /\ ticks = MaxTicks
  /\ Len(sunk) = 2 * MaxTicks
  /\ orchPc = "select"
  /\ \A w \in Workers : workerPc[w] = "range"
  /\ updaterPc = "range"

\* the workers that have been started and have not returned
LiveWorkers == { w \in Workers : workerPc[w] \notin {"unspawned", "done"} }

BarrierCounts ==
  /\ ~panicked
  /\ processorsWg \in 0 .. numProcessorWorkers
  /\ processorsWg = Cardinality(LiveWorkers)
  /\ closerPc # "unspawned" =>
       /\ \A w \in Workers : workerPc[w] # "unspawned"
       /\ processorsWg = 0 <=> AllWorkersExited
  /\ closerPc \in {"close", "done"} => processorsWg = 0 /\ AllWorkersExited
  /\ mainWg \in 0 .. 1
  /\ mainWg = (IF updaterPc = "range" THEN 1 ELSE 0)
  /\ Phase # "Starting" => updaterPc # "unspawned"

BarrierSteps ==
  /\ closerPc = "unspawned" /\ closerPc' # "unspawned" =>
       processorsWg = numProcessorWorkers /\ closerPc' = "wait"
  /\ processorsWg' > processorsWg =>
       /\ processorsWg' = processorsWg + 1
       /\ Phase = "Starting" /\ closerPc = "unspawned"
       /\ \E w \in Workers :
            /\ workerPc[w] = "unspawned" /\ workerPc'[w] = "range"
            /\ \A v \in Workers \ {w} : workerPc'[v] = workerPc[v]
  /\ processorsWg' < processorsWg =>
       /\ processorsWg' = processorsWg - 1
       /\ \E w \in Workers :
            /\ workerPc[w] = "range" /\ workerPc'[w] = "done"
            /\ \A v \in Workers \ {w} : workerPc'[v] = workerPc[v]
  /\ \A w \in Workers :
       /\ workerPc[w] # "done" /\ workerPc'[w] = "done" => processorsWg' = processorsWg - 1
       /\ workerPc[w] = "done" => workerPc'[w] = "done"
  /\ mainWg' > mainWg =>
       /\ mainWg = 0 /\ mainWg' = 1
       /\ Phase = "Starting"
       /\ updaterPc = "unspawned" /\ updaterPc' = "range"
  /\ mainWg' < mainWg =>
       /\ mainWg' = 0
       /\ updaterPc = "range" /\ updaterPc' = "done"
  /\ updaterPc # "done" /\ updaterPc' = "done" => mainWg = 1 /\ mainWg' = 0
  /\ updaterPc = "done" => updaterPc' = "done"

\* C29: the wait barriers.  processorsWg counts the workers that have been
\* started and have not returned: it is raised by one per worker started,
\* all of them before the closer starts to wait, so it is 3 then; it is
\* lowered by one exactly by the step in which a worker returns, a worker
\* returns once, it is never negative, and from the moment the closer waits
\* it is zero exactly when all 3 workers have returned.  mainWg is raised
\* once, when the updater is started before the orchestrator's loop, and
\* lowered once, by the step in which the updater returns.
C29_WaitBarriers == [](BarrierCounts) /\ [][BarrierSteps]_vars

C29_Witness ==
  /\ closerPc = "wait"
  /\ processorsWg = 1
  /\ Cardinality({ w \in Workers : workerPc[w] = "done" }) = numProcessorWorkers - 1
  /\ mainWg = 1
  /\ Len(sunk) >= 2

CapacitySteps ==
  \A w \in Workers :
     workerPc[w] = "send" =>
        \/ workerPc'[w] = "send" /\ workerDef'[w] = workerDef[w]
        \/ /\ Len(resultsChan) < ResultsChanCap
           /\ resultsChan' = Append(resultsChan, MakeResult(workerDef[w]))

\* C30: capacities.  The input queue never holds more than 10 items, the
\* output queue never more than 10 results, a session's event buffer never
\* more than 32 events and its cancel channel never more than 1 value.  A
\* worker whose result does not fit into the full output queue cannot take
\* its send step: it keeps its item and stays at the send until there is
\* room, and the result is never dropped.
C30_Capacities ==
  /\ [](/\ DefsChanCap = 10 /\ ResultsChanCap = 10
        /\ SseChanCap = 32 /\ CancelChanCap = 1
        /\ Len(defsToProcessChan) <= DefsChanCap
        /\ Len(resultsChan) <= ResultsChanCap
        /\ \A id \in ClientIds :
             /\ Len(sseChannel[id]) <= SseChanCap
             /\ Len(cancelChannel[id]) <= CancelChanCap
        /\ \A w \in Workers :
             (workerPc[w] = "send" /\ Len(resultsChan) = ResultsChanCap)
                => ~ ENABLED WorkerSend(w))
  /\ [][CapacitySteps]_vars

C30_Witness ==
  /\ Len(resultsChan) = ResultsChanCap
  /\ \A w \in Workers : workerPc[w] = "send"
  /\ Len(defsToProcessChan) = DefsChanCap
  /\ Len(enqueued) = ResultsChanCap + numProcessorWorkers + DefsChanCap
  /\ ticks > (ResultsChanCap + numProcessorWorkers + DefsChanCap) \div 2

LifecycleSteps ==
  /\ \A id \in ClientIds :
       /\ isCancelled[id] => isCancelled'[id]
       /\ isCancelled'[id] /\ ~isCancelled[id] =>
            \E c \in InProgress : c.at = "cLock" /\ c.arg = id /\ CancelLock(c)
       /\ id \in removed => id \in removed' /\ ~Found(id)'
       /\ Found(id) /\ ~Found(id)' =>
            /\ \E c \in InProgress : c.at = "rDelete" /\ c.arg = id /\ RemoveDelete(c)
            /\ id \in removed'
       /\ ~Found(id) /\ Found(id)' =>
            /\ id \notin removed
            /\ id = nextId
            /\ lastRet' = Result("NewClient", NoSuchClient, "nil", {id})
            /\ ~isCancelled'[id]
  /\ removed \subseteq removed'

\* C31: the session lifecycle is monotonic.  A cancelled flag that is true
\* stays true, and only a CancelImport of that session, at its step after the
\* already-cancelled check, sets it; an ID leaves the registry only by the
\* delete step of a RemoveClient of that ID, and a removed ID is never in the
\* registry again: an ID enters the registry only as the fresh ID of a
\* NewClient, with its flag false.
C31_LifecycleMonotonic ==
  /\ [][LifecycleSteps]_vars
  /\ [](\A id \in removed : ~Found(id))

C31_Witness ==
  /\ 1 \in removed
  /\ isCancelled[1]
  /\ clients = {2}
  /\ lastRet = Result("NewClient", NoSuchClient, "nil", {2})

CancelSendSucceeds ==
  \A c \in InProgress :
     (c.at = "cSend" /\ c.arg \notin removed /\ CancelSend(c)) =>
        /\ Len(cancelChannel[c.arg]) = 0
        /\ lastRet' = Result("CancelImport", c.arg, "nil", {})

\* C32: on a session that has not been removed, a CancelImport that has
\* passed the already-cancelled check finds the cancel channel empty and its
\* send succeeds: the call returns nil, never "signal send failed" or any
\* other failure with the flag left set.
C32_CancelSendNeverFails == [][CancelSendSucceeds]_vars

\* what does hold on every session, removed or not: the channel is empty at
\* the send and "signal send failed" is never returned
NeverSignalFailed ==
  /\ lastRet.err # ErrSignalFailed
  /\ \A c \in InProgress : c.at = "cSend" => Len(cancelChannel[c.arg]) = 0

\* the service runs a single worker: the others were never started
SingleWorker ==
  /\ spawnI > 0
  /\ \A w \in Workers \ {numProcessorWorkers - 1} : workerPc[w] = "unspawned"

\* the IDs of the results in the output queue, oldest first
ResultIds == [i \in DOMAIN resultsChan |-> resultsChan[i].DefinitionID]

\* the IDs that have left the workers, in the order the sink gets them
Delivered == sunk \o ResultIds

\* the item the single worker holds, if any
HeldBySingle ==
  IF workerPc[numProcessorWorkers - 1] = "send"
  THEN << workerDef[numProcessorWorkers - 1] >> ELSE << >>

\* the position at which id was enqueued
EnqueuedAt(id) == CHOOSE i \in DOMAIN enqueued : enqueued[i] = id

\* C33: the order of results at the sink.  With a single worker the results
\* reach the sink in the order the items were enqueued: what the sink has
\* received, the output queue, the worker's item and the input queue, one
\* after the other, are the enqueued items in their order.  With three
\* workers the order is not fixed (the witness has the sink receive the
\* second item before the first); a result gets ahead of at most 2 places.
C33_SinkOrder ==
  /\ SingleWorker =>
       Delivered \o HeldBySingle \o defsToProcessChan = enqueued
  /\ \A k \in DOMAIN Delivered :
       /\ Count(enqueued, Delivered[k]) = 1
       /\ EnqueuedAt(Delivered[k]) <= k + (numProcessorWorkers - 1)

C33_Witness ==
  /\ ~SingleWorker
  /\ Len(sunk) >= 2
  /\ sunk[1] = enqueued[2]
  /\ sunk[2] = enqueued[1]

\* C34: once a CancelImport of a session has returned nil, no step appends
\* an event to that session's buffer, not even the send of a Broadcast that
\* had read the flag before the cancellation.
C34_NoEventAfterCancel ==
  [][\A id \in ClientIds :
       cancelOk[id] > 0 => Len(sseChannel'[id]) <= Len(sseChannel[id])]_vars

\* the Broadcast calls on id that have passed the cancelled check and not
\* yet done their send
SendingOn(b, id) ==
  LET S == { c \in BagToSet(b) : c.at = "bSend" /\ c.arg = id }
  IN  BagCardinality([c \in S |-> CopiesIn(c, b)])

LateEventsOnly ==
  \A id \in ClientIds :
     cancelOk[id] > 0 =>
        /\ isCancelled[id]
        /\ SendingOn(calls', id) <= SendingOn(calls, id)
        /\ Len(sseChannel'[id]) > Len(sseChannel[id]) =>
             /\ Len(sseChannel'[id]) = Len(sseChannel[id]) + 1
             /\ SendingOn(calls', id) = SendingOn(calls, id) - 1

\* C34 as amended: once a CancelImport of a session has returned nil, the
\* flag is set and no Broadcast passes the cancelled check of that session
\* any more; an event is appended only by the send of a Broadcast that had
\* passed the check before, one event per such call.
C34_OnlyCallsPastTheCheckAppend == [][LateEventsOnly]_vars

C34_Witness ==
  /\ cancelOk[1] = 1
  /\ isCancelled[1]
  /\ nBroadcast = 1
  /\ sseChannel[1] = << "e2" >>
  /\ lastRet = Result("Broadcast", 1, "nil", {})

\* C35: once the stop signal has been closed the fetcher is not started any
\* more and no item is enqueued, also when a tick and the signal are ready
\* together.
C35_NoFetchAfterStopFired ==
  [][stopChan = "closed" =>
       /\ ~(orchPc = "select" /\ orchPc' = "fetch")
       /\ enqueued' = enqueued]_vars

NoFetchAfterStopTaken ==
  /\ (orchPc \in {"waitMain", "stopped"}) =>
        /\ orchPc' \in {"waitMain", "stopped"}
        /\ UNCHANGED << enqueued, ticks, dummyDefinitions, fetchIdx >>
        /\ Len(defsToProcessChan') <= Len(defsToProcessChan)
  /\ (orchPc = "select" /\ orchPc' = "waitMain") =>
        stopChan = "closed" /\ ~defsClosed /\ defsClosed'
  /\ (orchPc = "select" /\ stopChan = "closed") => ENABLED OrchStop
  /\ enqueued' # enqueued =>
        /\ orchPc = "fetch" /\ ~defsClosed
        /\ Len(enqueued') = Len(enqueued) + 1

\* C35 as amended: once the orchestrator has taken the stop case of its
\* select, the fetcher is not started any more and no item is enqueued.
\* From the close of the stop signal to that step the orchestrator still
\* finishes a fetch it is in, and, the stop case being ready at every
\* select from then on, may still take a tick that is ready too.
C35_NoFetchAfterStopTaken == [][NoFetchAfterStopTaken]_vars

C35_Witness ==
  /\ stopChan = "closed"
  /\ orchPc = "stopped"
  /\ ticks = 1
  /\ callerPc = "signalled"
  /\ Len(enqueued) = 2
  /\ sunk = enqueued

\* the state of session id: its buffers, flags and registry membership
SessionOf(id) ==
  << sseChannel[id], sseClosed[id], cancelChannel[id], cancelClosed[id],
     isCancelled[id], id \in clients >>

\* the call that takes a step: it starts, moves or finishes
StepOn(id) ==
  \/ \E ev \in FillEvents : BroadcastLookup(id, ev, TRUE)
  \/ CancelLookup(id)
  \/ RemoveLock(id)
  \/ GetClientSSEChannel(id)
  \/ \E c \in InProgress :
       /\ c.arg = id
       /\ c.at \in {"bCheck", "bSend", "cLock", "cSend",
                    "rCloseSse", "rCloseCancel", "rDelete"}
       /\ CallStep(c)

IsolationSteps ==
  /\ \A id \in KnownIds :
       StepOn(id) => \A other \in ClientIds \ {id} : SessionOf(other)' = SessionOf(other)
  /\ \A c \in InProgress :
       (c.at \in {"bCheck", "bSend", "cLock", "cSend", "lVisit"} /\ CallStep(c)) =>
          UNCHANGED << clients, nextId, removed >>
  /\ \A id \in KnownIds :
       ((\E ev \in FillEvents : BroadcastLookup(id, ev, TRUE))
          \/ CancelLookup(id) \/ GetClientSSEChannel(id)) =>
          UNCHANGED << clients, nextId, removed >>
  /\ ListRLock => UNCHANGED << sessionState, removed >>
  /\ \A c \in InProgress :
       (c.at = "lVisit" /\ CallStep(c)) => UNCHANGED << sessionState, removed >>
  /\ \A id \in KnownIds : GetClientSSEChannel(id) => UNCHANGED << sessionState, removed >>

\* C36: session isolation.  Every step of a Broadcast, CancelImport,
\* RemoveClient or GetClientSSEChannel called with one ID leaves the event
\* buffer, the cancel channel, both closed marks, the cancelled flag and the
\* registry membership of every other session as they were; and no step of
\* Broadcast, CancelImport, ListActiveImports or GetClientSSEChannel adds or
\* deletes a registry entry, whatever the call returns.
C36_SessionIsolation == [][IsolationSteps]_vars

C36_Witness ==
  /\ clients = {2}
  /\ 1 \in removed
  /\ sseChannel[2] = << "e1" >>
  /\ ~isCancelled[2] /\ ~sseClosed[2] /\ ~cancelClosed[2]
  /\ isCancelled[1] /\ sseClosed[1]
  /\ lastRet = Result("RemoveClient", 1, "nil", {})

====
